---- MODULE Spec2Model ----
(***************************************************************************)
(* A model of the tet.rs game engine (src/src/main.rs): the piece and      *)
(* field model, the collision test, the per-tick update of the Game        *)
(* screen (TetrisMain::update) with its deferred board effects, the input  *)
(* debouncer, the Menu, the Scoreboard with the score file                 *)
(* tetrs_scores.bin byte by byte, and main's stack of screens.             *)
(*                                                                         *)
(* One step of Spec is one iteration of the `while self.accum > FRAME_TIME`*)
(* loop of TetrisMain::update, i.e. one logic tick run to completion.      *)
(* SpecApp runs the whole application: a step is a logic tick of the top   *)
(* screen or main's handling of the StateChange a tick returned. SpecRun   *)
(* is SpecApp from fewer starting games. SpecFits, SpecDrop, SpecInput,    *)
(* SpecLoop, SpecScores, SpecFile, SpecTurn, SpecFreeze, SpecAccum (the    *)
(* accumulator loops of the three screens) and SpecFall (the fall of one   *)
(* piece) exercise one part each.                                          *)
(***************************************************************************)
EXTENDS Integers, Sequences, FiniteSets, TLC

VARIABLES
    field,               \* TetrisMain.field : [0..199 -> Cell]
    active_piece,        \* TetrisMain.active_piece : Option<Piece>
    fall_ticks,          \* TetrisMain.fall_ticks
    fall_counter,        \* TetrisMain.fall_counter
    fall_accel_counter,  \* TetrisMain.fall_accel_counter
    next_pieces,         \* TetrisMain.next_pieces : Vec<Piece>
    rotated,             \* TetrisMain.rotated
    last_input,          \* TetrisMain.last_input : PlayerInput
    ticker,              \* TetrisMain.ticker
    score,               \* TetrisMain.score
    effect,              \* TetrisMain.effect : Option<BoardEffect>
    change,              \* the StateChange the last tick returned (None when the loop goes on)
    last_tick,           \* history: what the last tick did (branch taken, should_fall, attempts,
                         \* the piece after its rotation step and after its movement step)
    effect_set_at,       \* history: the value of ticker on the tick that set the last effect
    play_ticks,          \* history: the part of the run's budget of ticks that reach the spawn
                         \* or the piece logic which is spent
    call,                \* a call of a pure function: its arguments and its result
    states,              \* main: the stack of screens, states[Len(states)] is the top
    should_close,        \* main: window.should_close()
    file                 \* the score file tetrs_scores.bin: its bytes, or None

vars == <<field, active_piece, fall_ticks, fall_counter, fall_accel_counter,
          next_pieces, rotated, last_input, ticker, score, effect, change,
          last_tick, effect_set_at, play_ticks, call, states, should_close, file>>

\* The state of main and of the file system, which a tick of the Game screen
\* does not touch.
app_vars == <<states, should_close, file>>

engine_vars == <<field, active_piece, fall_ticks, fall_counter, fall_accel_counter,
                 next_pieces, rotated, last_input, ticker, score, effect, change,
                 last_tick, effect_set_at, play_ticks>>

----------------------------------------------------------------------------
(* Program constants                                                       *)

FIELD_WIDTH == 10
FIELD_HEIGHT == 20
FieldLen == FIELD_WIDTH * FIELD_HEIGHT

\* Option<T>: None is the empty sequence, Some(v) the sequence of v alone.
None == << >>
Some(v) == << v >>
Unwrap(o) == o[1]

\* Cell::Empty; Cell::Full(c) is written as the colour c itself.
Empty == "Empty"

\* static PIECES: the 4x4 bitmaps, row-major, one character per cell.
PIECES ==
    << << ".", ".", ".", ".",
          ".", "#", "#", ".",
          ".", "#", "#", ".",
          ".", ".", ".", "." >>,
       << ".", ".", "#", ".",
          ".", ".", "#", ".",
          ".", ".", "#", ".",
          ".", ".", "#", "." >>,
       << ".", "#", ".", ".",
          ".", "#", "#", ".",
          ".", ".", "#", ".",
          ".", ".", ".", "." >>,
       << ".", ".", "#", ".",
          ".", "#", "#", ".",
          ".", "#", ".", ".",
          ".", ".", ".", "." >>,
       << ".", "#", ".", ".",
          ".", "#", ".", ".",
          ".", "#", "#", ".",
          ".", ".", ".", "." >>,
       << ".", ".", "#", ".",
          ".", ".", "#", ".",
          ".", "#", "#", ".",
          ".", ".", ".", "." >>,
       << ".", "#", ".", ".",
          ".", "#", "#", ".",
          ".", "#", ".", ".",
          ".", ".", ".", "." >> >>

\* static PIECE_COLORS
PIECE_COLORS == << "Red", "Orange", "Yellow", "Green", "Blue", "Purple", "White" >>

Colors == { PIECE_COLORS[i] : i \in 1..Len(PIECE_COLORS) }

----------------------------------------------------------------------------
(* Piece model                                                             *)

\* A piece constructed at the middle column, without the offset of 2.
NewPieceAtMiddle(index) ==
    [ x     |-> FIELD_WIDTH \div 2,
      y     |-> 0,
      color |-> PIECE_COLORS[index + 1],
      rot   |-> 0,
      shape |-> index ]

\* A piece constructed one row below the top.
NewPieceBelowTop(index) ==
    [ x     |-> (FIELD_WIDTH \div 2) - 2,
      y     |-> 1,
      color |-> PIECE_COLORS[index + 1],
      rot   |-> 0,
      shape |-> index ]

\* Piece::new(index). The piece keeps the index of its bitmap in `shape`
\* (the code keeps the bitmap PIECES[index] itself).
NewPiece(index) ==
    [ x     |-> (FIELD_WIDTH \div 2) - 2,
      y     |-> 0,
      color |-> PIECE_COLORS[index + 1],
      rot   |-> 0,
      shape |-> index ]

\* The index with rotation 3 written as the transposition `x * 4 + y`.
RotIndexTransposed(rot, x, y) ==
    CASE rot % 4 = 0 -> x + y * 4
      [] rot % 4 = 1 -> (3 - y) + x * 4
      [] rot % 4 = 2 -> 15 - (x + y * 4)
      [] rot % 4 = 3 -> x * 4 + y

\* The index into the unrotated bitmap that Piece::filled_at computes.
RotIndex(rot, x, y) ==
    CASE rot % 4 = 0 -> x + y * 4
      [] rot % 4 = 1 -> (3 - y) + x * 4
      [] rot % 4 = 2 -> 15 - (x + y * 4)
      [] rot % 4 = 3 -> (3 - x) * 4 + y

\* Piece::filled_at(x, y)
filled_at(piece, x, y) ==
    PIECES[piece.shape + 1][RotIndex(piece.rot, x, y) + 1] = "#"

----------------------------------------------------------------------------
(* Field and collision                                                     *)

EmptyField == [o \in 0..(FieldLen - 1) |-> Empty]

\* piece_fits with the `rx >= FIELD_WIDTH` test left out.
piece_fits_no_right_edge(piece, fld) ==
    \A y \in 0..3 : \A x \in 0..3 :
        LET rx == piece.x + x
            ry == piece.y + y
            offset == rx + ry * FIELD_WIDTH
        IN  filled_at(piece, x, y) =>
              /\ ~( \/ offset < 0
                    \/ offset >= FieldLen
                    \/ rx < 0
                    \/ ry < 0
                    \/ ry >= FIELD_HEIGHT )
              /\ fld[offset] = Empty

\* piece_fits(piece, field): false as soon as a filled cell is out of bounds
\* or on a cell that is not Empty.
piece_fits(piece, fld) ==
    \A y \in 0..3 : \A x \in 0..3 :
        LET rx == piece.x + x
            ry == piece.y + y
            offset == rx + ry * FIELD_WIDTH
        IN  filled_at(piece, x, y) =>
              /\ ~( \/ offset < 0
                    \/ offset >= FieldLen
                    \/ rx < 0
                    \/ rx >= FIELD_WIDTH
                    \/ ry < 0
                    \/ ry >= FIELD_HEIGHT )
              /\ fld[offset] = Empty

\* add_piece with its row loop ending one row early (`for y in 0..3`).
add_piece_three_rows(piece, fld) ==
    [ o \in 0..(FieldLen - 1) |->
        IF \E y \in 0..2 : \E x \in 0..3 :
              /\ filled_at(piece, x, y)
              /\ (piece.x + x) + (piece.y + y) * FIELD_WIDTH = o
        THEN piece.color
        ELSE fld[o] ]

\* add_piece(piece, field): the field after the piece is stamped into it.
add_piece(piece, fld) ==
    [ o \in 0..(FieldLen - 1) |->
        IF \E y \in 0..3 : \E x \in 0..3 :
              /\ filled_at(piece, x, y)
              /\ (piece.x + x) + (piece.y + y) * FIELD_WIDTH = o
        THEN piece.color
        ELSE fld[o] ]

----------------------------------------------------------------------------
(* Input debouncer                                                         *)

Keys == { "up", "down", "left", "right", "rot_right", "rot_left", "escape" }

\* map with the (Pressed, Pressed) pair in the arm of (Pressed, Released).
map_pressed_again(down, prev) ==
    LET this == IF down THEN "Pressed" ELSE "Released"
    IN  CASE this = "Pressed" /\ prev = "Holding" -> "Holding"
          [] this = "Pressed" /\ prev \in { "Pressed", "Released" } -> "Pressed"
          [] this = "Released" -> "Released"
          [] OTHER -> "unreachable"

\* The inner fn map(a, prev) of input(): `down` is the raw reading of the key
\* (Action::Press or Action::Repeat). The last arm is `_ => unreachable!()`.
map(down, prev) ==
    LET this == IF down THEN "Pressed" ELSE "Released"
    IN  CASE this = "Pressed" /\ prev \in { "Pressed", "Holding" } -> "Holding"
          [] this = "Pressed" /\ prev = "Released" -> "Pressed"
          [] this = "Released" -> "Released"
          [] OTHER -> "unreachable"

\* input(window, last_input): `raw` is the set of keys the window reads as down.
input(raw, last) == [ k \in Keys |-> map(k \in raw, last[k]) ]

\* PlayerInput::default()
DefaultInput == [ k \in Keys |-> "Released" ]

\* A test that lets a held key trigger on every tick.
was_pressed_every_tick(state, tick) == state = "Pressed" \/ state = "Holding"

\* was_pressed(input, ticker)
was_pressed(state, tick) ==
    CASE state = "Pressed" -> TRUE
      [] state = "Holding" /\ tick % 2 = 0 -> TRUE
      [] OTHER -> FALSE

----------------------------------------------------------------------------
(* Line clearing                                                           *)

\* A row of the field in which no cell is Empty.
RowFull(fld, y) == \A x \in 0..(FIELD_WIDTH - 1) : fld[x + y * FIELD_WIDTH] # Empty

\* A scan that looks at every row of the board.
DeletableWholeBoard(piece, fld) ==
    SelectSeq([ i \in 1..FIELD_HEIGHT |-> i - 1 ], LAMBDA y : RowFull(fld, y))

\* A scan that looks at the rows piece.y .. piece.y + 2 only.
DeletableThreeRows(piece, fld) ==
    SelectSeq([ i \in 1..3 |-> piece.y + i - 1 ],
              LAMBDA y : y >= 0 /\ y < FIELD_HEIGHT /\ RowFull(fld, y))

\* The line-clear scan after a freeze: the rows piece.y .. piece.y + 3 that
\* are on the board and full, in ascending order.
Deletable(piece, fld) ==
    SelectSeq([ i \in 1..4 |-> piece.y + i - 1 ],
              LAMBDA y : y >= 0 /\ y < FIELD_HEIGHT /\ RowFull(fld, y))

\* One pass of the removal loop for row line_y: every row from line_y up to
\* row 1 takes the contents of the row above it, row 0 becomes Empty.
ShiftDown(fld, line_y) ==
    [ o \in 0..(FieldLen - 1) |->
        IF o \div FIELD_WIDTH > line_y THEN fld[o]
        ELSE IF o \div FIELD_WIDTH = 0 THEN Empty
        ELSE fld[o - FIELD_WIDTH] ]

\* The removal loop run over the recorded rows from the last to the first.
RECURSIVE DeleteLinesBottomUp(_, _)
DeleteLinesBottomUp(fld, lines) ==
    IF lines = << >> THEN fld
    ELSE DeleteLinesBottomUp(ShiftDown(fld, lines[Len(lines)]), SubSeq(lines, 1, Len(lines) - 1))

\* The removal loop over the rows recorded in the effect, in their order.
RECURSIVE DeleteLines(_, _)
DeleteLines(fld, lines) ==
    IF lines = << >> THEN fld
    ELSE DeleteLines(ShiftDown(fld, Head(lines)), Tail(lines))

\* A score that grows by 100 for every row.
LineScoreLinear(n) == n * 100

\* The score table of a freeze that completed n rows.
LineScore(n) ==
    CASE n = 1 -> 1 * 100
      [] n = 2 -> 3 * 100
      [] n = 3 -> 5 * 100
      [] n = 4 -> 8 * 100

\* A subtraction that does not stop at 0.
sub_below_zero(a, b) == a - b

\* u32::saturating_sub
saturating_sub(a, b) == IF a >= b THEN a - b ELSE 0

----------------------------------------------------------------------------
(* Engine constants                                                        *)

\* TetrisMain::default(): fall_ticks and fall_accel_ticks
FALL_TICKS_START == 20
FALL_ACCEL_TICKS == 10

\* A lifetime whose quotient 1.0 / FRAME_TIME fell just below 20 before trunc().
LINES_CLEARED_LIFE_TRUNCATED == 20 - 1

\* ((1.0 / FRAME_TIME) * 1.0).trunc() and ((1.0 / FRAME_TIME) * 3.0).trunc()
\* with FRAME_TIME = 0.05f32: the f32 quotient is exactly 20.0.
LINES_CLEARED_LIFE == 20
GAME_OVER_LIFE == 60

NoEffect == None
NoChange == [ kind |-> "None", inputting_score |-> None ]

\* What a tick that did not reach the piece logic records in last_tick.
Idle(branch) ==
    [ branch       |-> branch,
      should_fall  |-> FALSE,
      rot_attempt  |-> "none",
      move_attempt |-> "none",
      spawned      |-> None,
      rot_piece    |-> None,
      piece        |-> None,
      froze        |-> FALSE,
      deletable    |-> << >>,
      removed      |-> << >> ]

----------------------------------------------------------------------------
(* TetrisMain::update, one tick                                            *)

\* A rotation with a wall kick: a rotated piece that does not fit is tried
\* again one column to the left.
RotateWithKick(inp, piece, fld, latch) ==
    IF (inp.rot_right = "Pressed" \/ inp.rot_left = "Pressed") /\ ~latch THEN
        LET right      == inp.rot_right = "Pressed"
            test_piece == [piece EXCEPT !.rot = IF right THEN (piece.rot + 1) % 4
                                                ELSE IF piece.rot = 0 THEN 3 ELSE piece.rot - 1]
            kicked     == [test_piece EXCEPT !.x = test_piece.x - 1]
        IN  [ piece   |-> IF piece_fits(test_piece, fld) THEN test_piece
                          ELSE IF piece_fits(kicked, fld) THEN kicked ELSE piece,
              rotated |-> TRUE,
              attempt |-> IF right THEN "right" ELSE "left" ]
    ELSE [ piece   |-> piece,
           rotated |-> (inp.rot_right = "Pressed" \/ inp.rot_left = "Pressed") /\ latch,
           attempt |-> "none" ]

\* "rotate brick if requested": the piece, the latch and the attempt made.
Rotate(inp, piece, fld, latch) ==
    IF inp.rot_right = "Pressed" THEN
        IF ~latch THEN
            LET test_piece == [piece EXCEPT !.rot = (piece.rot + 1) % 4]
            IN  [ piece   |-> IF piece_fits(test_piece, fld) THEN test_piece ELSE piece,
                  rotated |-> TRUE,
                  attempt |-> "right" ]
        ELSE [ piece |-> piece, rotated |-> latch, attempt |-> "none" ]
    ELSE IF inp.rot_left = "Pressed" THEN
        IF ~latch THEN
            LET test_piece == [piece EXCEPT !.rot = IF piece.rot = 0 THEN 3 ELSE piece.rot - 1]
            IN  [ piece   |-> IF piece_fits(test_piece, fld) THEN test_piece ELSE piece,
                  rotated |-> TRUE,
                  attempt |-> "left" ]
        ELSE [ piece |-> piece, rotated |-> latch, attempt |-> "none" ]
    ELSE [ piece |-> piece, rotated |-> FALSE, attempt |-> "none" ]

\* The movement step with the left key tested first.
MoveLeftFirst(inp, tick, piece, fld) ==
    IF was_pressed(inp.left, tick) THEN
        LET test_piece == [piece EXCEPT !.x = piece.x - 1]
        IN  [ piece   |-> IF piece_fits(test_piece, fld) THEN test_piece ELSE piece,
              attempt |-> "left" ]
    ELSE IF was_pressed(inp.right, tick) THEN
        LET test_piece == [piece EXCEPT !.x = piece.x + 1]
        IN  [ piece   |-> IF piece_fits(test_piece, fld) THEN test_piece ELSE piece,
              attempt |-> "right" ]
    ELSE [ piece |-> piece, attempt |-> "none" ]

\* A movement step that does not test whether the moved piece fits.
MoveWithoutTest(inp, tick, piece, fld) ==
    IF was_pressed(inp.right, tick) THEN
        [ piece |-> [piece EXCEPT !.x = piece.x + 1], attempt |-> "right" ]
    ELSE IF was_pressed(inp.left, tick) THEN
        [ piece |-> [piece EXCEPT !.x = piece.x - 1], attempt |-> "left" ]
    ELSE [ piece |-> piece, attempt |-> "none" ]

\* "move brick left and right if requested": the piece and the attempt made.
Move(inp, tick, piece, fld) ==
    IF was_pressed(inp.right, tick) THEN
        LET test_piece == [piece EXCEPT !.x = piece.x + 1]
        IN  [ piece   |-> IF piece_fits(test_piece, fld) THEN test_piece ELSE piece,
              attempt |-> "right" ]
    ELSE IF was_pressed(inp.left, tick) THEN
        LET test_piece == [piece EXCEPT !.x = piece.x - 1]
        IN  [ piece   |-> IF piece_fits(test_piece, fld) THEN test_piece ELSE piece,
              attempt |-> "left" ]
    ELSE [ piece |-> piece, attempt |-> "none" ]

\* should_fall without the down key.
ShouldFallCounterOnly(counter, inp, tick) == counter = 0

\* A should_fall that waits while the piece is being moved to a side.
ShouldFallUnlessMoving(counter, inp, tick) ==
    \/ was_pressed(inp.down, tick)
    \/ counter = 0 /\ ~was_pressed(inp.left, tick) /\ ~was_pressed(inp.right, tick)

\* should_fall of a tick whose decremented fall counter is `counter`.
ShouldFall(counter, inp, tick) == counter = 0 \/ was_pressed(inp.down, tick)

\* The reduction of fall_ticks without its floor of 1.
AccelerateNoFloor(ticks, accel_counter) ==
    IF accel_counter = 0 THEN ticks - 1 ELSE ticks

\* "tick down fall accelerator counter": fall_ticks after the test of the
\* acceleration counter.
Accelerate(ticks, accel_counter) ==
    IF accel_counter = 0
    THEN (IF ticks - 1 > 1 THEN ticks - 1 ELSE 1)
    ELSE ticks

\* The acceleration counter after the same test.
AccelReset(accel_counter) ==
    IF accel_counter = 0 THEN FALL_ACCEL_TICKS ELSE accel_counter

\* The piece logic of a tick (from `let mut active_piece = ...unwrap()` to the
\* end of the loop body) for the piece `piece0`, which is the active piece or
\* the piece this tick has just made active (`spawned`).
Play(inp, piece0, spawned) ==
    LET counter     == fall_counter - 1
        should_fall == ShouldFall(counter, inp, ticker + 1)
        ticks       == Accelerate(fall_ticks, fall_accel_counter)
        accel       == AccelReset(fall_accel_counter)
        rot         == Rotate(inp, piece0, field, rotated)
        mov         == Move(inp, ticker + 1, rot.piece, field)
        piece       == mov.piece
        fits_below  == piece_fits([piece EXCEPT !.y = piece.y + 1], field)
        freeze      == should_fall /\ ~fits_below
        frozen      == add_piece(piece, field)
        deletable   == IF freeze THEN Deletable(piece, frozen) ELSE << >>
    IN  /\ fall_ticks' = ticks
        /\ fall_counter' = IF should_fall THEN ticks ELSE counter
        /\ rotated' = rot.rotated
        /\ active_piece' = IF freeze THEN None
                           ELSE IF should_fall THEN Some([piece EXCEPT !.y = piece.y + 1])
                           ELSE Some(piece)
        /\ field' = IF freeze THEN frozen ELSE field
        /\ score' = IF deletable # << >> THEN score + LineScore(Len(deletable)) ELSE score
        /\ fall_accel_counter' = IF deletable # << >>
                                 THEN saturating_sub(accel, Len(deletable))
                                 ELSE accel
        /\ effect' = IF deletable # << >>
                     THEN Some([ ty |-> "LinesCleared", lines |-> deletable,
                                 life |-> LINES_CLEARED_LIFE ])
                     ELSE NoEffect
        /\ change' = NoChange
        /\ last_tick' = [ branch       |-> "play",
                          should_fall  |-> should_fall,
                          rot_attempt  |-> rot.attempt,
                          move_attempt |-> mov.attempt,
                          spawned      |-> spawned,
                          rot_piece    |-> Some(rot.piece),
                          piece        |-> Some(piece),
                          froze        |-> freeze,
                          deletable    |-> deletable,
                          removed      |-> << >> ]
        /\ effect_set_at' = IF deletable # << >> THEN ticker + 1 ELSE effect_set_at
        /\ play_ticks' = play_ticks + 1

----------------------------------------------------------------------------
(* The screens and the score table                                         *)

\* PlayerInput::all_pressed()
all_pressed == [ k \in Keys |-> "Holding" ]

\* TetrisMenu: its fields (the accumulator apart).
MenuScreen(sel, last, tick) ==
    [ kind |-> "Menu", selection |-> sel, last_input |-> last, ticker |-> tick ]

\* TetrisMenu::default()
NewMenu == MenuScreen(0, all_pressed, 0)

\* TetrisMain on the stack. There is at most one, and its fields are the
\* variables field .. effect.
GameScreen == [ kind |-> "Game" ]

\* TetrisScores: its fields (the accumulator apart). An entry of the table
\* is a pair << name, score >>.
ScoresScreen(table, pending, last, tick) ==
    [ kind |-> "Scores", scores |-> table, inputting_score |-> pending,
      last_input |-> last, ticker |-> tick ]

\* The entries of `sorted` with `e` put behind every entry whose score is
\* not above its own.
InsertByScore(sorted, e) ==
    LET n == Cardinality({ i \in 1..Len(sorted) : sorted[i][2] <= e[2] })
    IN  SubSeq(sorted, 1, n) \o << e >> \o SubSeq(sorted, n + 1, Len(sorted))

\* sort_scores: slice::sort_by on the score, ascending and stable.
RECURSIVE sort_scores(_)
sort_scores(scores) ==
    IF scores = << >> THEN << >>
    ELSE InsertByScore(sort_scores(SubSeq(scores, 1, Len(scores) - 1)),
                       scores[Len(scores)])

\* Vec::reverse / Iterator::rev
Reverse(seq) == [ i \in 1..Len(seq) |-> seq[Len(seq) + 1 - i] ]

\* `b"tet.rs 1"`, the header of the score file.
MAGIC == << 116, 101, 116, 46, 114, 115, 32, 49 >>

\* The name every entered score gets, `"PLR"`, as the bytes of the String.
PLR == << 80, 76, 82 >>

\* Result<_, Box<dyn Error>>: Ok(v), or Err of the kind `e`.
Ok(v) == [ ok |-> TRUE, value |-> v ]
Err(e) == [ ok |-> FALSE, error |-> e ]

\* uN::to_le_bytes: the `n` bytes of `v`, the least significant first.
RECURSIVE to_le_bytes(_, _)
to_le_bytes(v, n) ==
    IF n = 0 THEN << >> ELSE << v % 256 >> \o to_le_bytes(v \div 256, n - 1)

\* uN::from_le_bytes
RECURSIVE from_le_bytes(_)
from_le_bytes(bytes) ==
    IF bytes = << >> THEN 0 ELSE bytes[1] + 256 * from_le_bytes(Tail(bytes))

\* UTF-8: the continuation bytes that follow the leading byte `b`, or -1
\* when `b` cannot lead a character.
Continuations(b) ==
    CASE b < 128 -> 0
      [] b >= 194 /\ b <= 223 -> 1
      [] b >= 224 /\ b <= 239 -> 2
      [] b >= 240 /\ b <= 244 -> 3
      [] OTHER -> -1

\* UTF-8: whether `c` may be continuation number `k` after the leading byte
\* `b` (the first continuation excludes overlong forms, surrogates and code
\* points above U+10FFFF).
Continues(b, k, c) ==
    IF k > 1 THEN c >= 128 /\ c <= 191
    ELSE CASE b = 224 -> c >= 160 /\ c <= 191
           [] b = 237 -> c >= 128 /\ c <= 159
           [] b = 240 -> c >= 144 /\ c <= 191
           [] b = 244 -> c >= 128 /\ c <= 143
           [] OTHER -> c >= 128 /\ c <= 191

\* The continuation bytes of the character led by bytes[i] that are present
\* and valid, counted from continuation `k` on.
RECURSIVE Continued(_, _, _)
Continued(bytes, i, k) ==
    IF /\ k <= Continuations(bytes[i])
       /\ i + k <= Len(bytes)
       /\ Continues(bytes[i], k, bytes[i + k])
    THEN 1 + Continued(bytes, i, k + 1)
    ELSE 0

\* U+FFFD REPLACEMENT CHARACTER in UTF-8.
REPLACEMENT == << 239, 191, 189 >>

\* Byte `i` is a continuation byte that the character or the ill-formed run
\* led by one of the three bytes before it takes in. (A leading byte is never
\* a continuation byte, so it always starts a character or a run.)
Absorbed(bytes, i) ==
    \E k \in 1..3 :
        /\ i - k >= 1
        /\ Continuations(bytes[i - k]) >= k
        /\ Continued(bytes, i - k, 1) >= k

\* What String::from_utf8_lossy gives for the bytes from `i` up to the next
\* character or run: the character when it is complete and valid, U+FFFD for
\* a maximal ill-formed run, nothing when byte `i` is inside one of these.
LossyAt(bytes, i) ==
    LET need == Continuations(bytes[i])
    IN  IF Absorbed(bytes, i) THEN << >>
        ELSE IF need >= 0 /\ Continued(bytes, i, 1) = need
             THEN SubSeq(bytes, i, i + need)
             ELSE REPLACEMENT

\* The results for the bytes lo..hi, one after the other.
RECURSIVE LossyFrom(_, _, _)
LossyFrom(bytes, lo, hi) ==
    IF lo > hi THEN << >>
    ELSE IF lo = hi THEN LossyAt(bytes, lo)
    ELSE LossyFrom(bytes, lo, (lo + hi) \div 2)
             \o LossyFrom(bytes, (lo + hi) \div 2 + 1, hi)

\* String::from_utf8_lossy(bytes).into_owned(): a valid character is kept and
\* every maximal ill-formed run becomes U+FFFD.
from_utf8_lossy(bytes) == LossyFrom(bytes, 1, Len(bytes))

\* The loop of load_scores over the declared entries: `left` entries are
\* still to be read from byte `pos` on (the bytes read so far are pos - 1),
\* `scores` are the entries pushed. A read_exact beyond the end of the file
\* fails with UnexpectedEof.
RECURSIVE read_entries(_, _, _, _)
read_entries(contents, pos, left, scores) ==
    IF left = 0 THEN Ok([ scores |-> scores, pos |-> pos ])
    ELSE IF pos > Len(contents) THEN Err("UnexpectedEof")
    ELSE LET length == contents[pos]
             at     == pos + 1 + length
         IN  IF at - 1 > Len(contents) THEN Err("UnexpectedEof")
             ELSE IF at + 7 > Len(contents) THEN Err("UnexpectedEof")
             ELSE read_entries(contents, at + 8, left - 1,
                      Append(scores,
                             << from_utf8_lossy(SubSeq(contents, pos + 1, at - 1)),
                                from_le_bytes(SubSeq(contents, at, at + 7)) >>))

\* A load that does not compare the bytes read with the length of the file.
load_scores_ignoring_rest(f) ==
    IF f = None THEN Err("NotFound")
    ELSE LET contents == Unwrap(f)
         IN  IF Len(contents) < Len(MAGIC) THEN Err("UnexpectedEof")
             ELSE IF SubSeq(contents, 1, Len(MAGIC)) # MAGIC THEN Err("InvalidData")
             ELSE IF Len(contents) < Len(MAGIC) + 1 THEN Err("UnexpectedEof")
             ELSE LET read == read_entries(contents, Len(MAGIC) + 2,
                                           contents[Len(MAGIC) + 1], << >>)
                  IN  IF ~read.ok THEN read
                      ELSE Ok(Reverse(sort_scores(read.value.scores)))

\* load_scores(): `f` is the file, None when it cannot be opened. The header
\* is read and compared, then the number of entries and the entries; bytes
\* left over are an error; the entries are sorted and reversed.
load_scores(f) ==
    IF f = None THEN Err("NotFound")
    ELSE LET contents == Unwrap(f)
         IN  IF Len(contents) < Len(MAGIC) THEN Err("UnexpectedEof")
             ELSE IF SubSeq(contents, 1, Len(MAGIC)) # MAGIC THEN Err("InvalidData")
             ELSE IF Len(contents) < Len(MAGIC) + 1 THEN Err("UnexpectedEof")
             ELSE LET read == read_entries(contents, Len(MAGIC) + 2,
                                           contents[Len(MAGIC) + 1], << >>)
                  IN  IF ~read.ok THEN read
                      ELSE IF read.value.pos - 1 # Len(contents) THEN Err("InvalidData")
                      ELSE Ok(Reverse(sort_scores(read.value.scores)))

\* The most entries save_scores writes and the table keeps after an insertion.
MAX_SCORES == 10

\* `usize::min`
Min(a, b) == IF a < b THEN a ELSE b

\* `u8::MAX`, the longest name an entry of the file can hold, in bytes.
U8_MAX == 255

\* The bytes save_scores writes for one entry: the length of the name in one
\* byte (u8::MAX at most), that many bytes of the name, the score in 8 bytes.
entry_bytes(entry) ==
    LET name_len == Min(Len(entry[1]), U8_MAX)
    IN  to_le_bytes(name_len, 1) \o SubSeq(entry[1], 1, name_len)
            \o to_le_bytes(entry[2], 8)

\* The bytes of the entries of `scores` in their order.
RECURSIVE entries_bytes(_)
entries_bytes(scores) ==
    IF scores = << >> THEN << >>
    ELSE entry_bytes(Head(scores)) \o entries_bytes(Tail(scores))

\* A save that writes the first ten entries of the table in their order.
save_scores_first_ten(scores) ==
    LET n_entries == Min(Len(scores), MAX_SCORES)
    IN  MAGIC \o to_le_bytes(n_entries, 1)
            \o entries_bytes(SubSeq(scores, 1, n_entries))

\* A save that writes the last ten entries of the table in their order.
save_scores_in_table_order(scores) ==
    LET n_entries == Min(Len(scores), MAX_SCORES)
    IN  MAGIC \o to_le_bytes(n_entries, 1)
            \o entries_bytes(SubSeq(scores, Len(scores) - n_entries + 1, Len(scores)))

\* save_scores(scores) when every write succeeds: the contents of the file
\* afterwards, the header, `min(len, 10)` and the entries of
\* `scores.iter().rev().take(10)`.
save_scores(scores) ==
    LET n_entries == Min(Len(scores), MAX_SCORES)
    IN  MAGIC \o to_le_bytes(n_entries, 1)
            \o entries_bytes(SubSeq(Reverse(scores), 1, n_entries))

\* The file after a call of save_scores(scores) that returns Ok.
Saved(scores) == Some(save_scores(scores))

\* The files a call of save_scores(scores) that returns an error can leave
\* when the file was `f`: the old file (it could not be opened), or a
\* truncated one holding nothing, the header only, or all but the last byte.
SaveFailures(scores, f) ==
    { f } \cup { Some(SubSeq(save_scores(scores), 1, n)) :
                    n \in { 0, Len(MAGIC), Len(save_scores(scores)) - 1 } }

\* `load_scores().unwrap_or_else(|e| { eprintln!(..); Vec::new() })`
LoadedOrEmpty(f) == IF load_scores(f).ok THEN load_scores(f).value ELSE << >>

\* TetrisScores::default() with the inputting_score the caller gives it.
NewScores(f, pending) == ScoresScreen(LoadedOrEmpty(f), pending, DefaultInput, 0)

\* The Menu as the tick that confirmed "Play" left it: the keys read up on
\* its first tick and the rotate key was pressed on its second.
MenuBeneath == MenuScreen(0, [DefaultInput EXCEPT !.rot_right = "Pressed"], 2)

\* `states.last_mut().unwrap()`
Top == states[Len(states)]

\* The loop of main goes on and its top screen, of the kind `kind`, is updated.
Running(kind) ==
    /\ ~should_close
    /\ states # << >>
    /\ Top.kind = kind
    /\ change.kind = "None"

----------------------------------------------------------------------------
(* Bounds of the exploration                                               *)

\* The ticks of one run that may reach the spawn or the piece logic (the
\* ticks spent in an effect are bounded by the effect's lifetime).
MaxPlayTicks == 3

\* The values rand::thread_rng().gen_range(0..PIECES.len()) is drawn from:
\* the square and the bar.
ShapeIds == { 0, 1 }

\* The raw key readings of a tick: the set of keys that read down.
RawInputs ==
    { {}, {"down"}, {"left"}, {"right"}, {"left", "right"},
      {"rot_right"}, {"rot_left"}, {"escape"} }

----------------------------------------------------------------------------
(* The ticks                                                               *)

\* The loop head shared by every tick: the tick counter and the debouncer.
Begin(inp) ==
    /\ Running("Game")
    /\ ticker' = ticker + 1
    /\ last_input' = inp

\* A countdown that takes two off the lifetime.
CountdownByTwo(life) == life - 2

\* `effect.life -= 1`
Countdown(life) == life - 1

\* A hand-over that enters the score whatever it is.
PendingScoreAlways(sc) == Some(sc)

\* The inputting_score of the TetrisScores the game hands over to.
PendingScore(sc) == IF sc > 0 THEN Some(sc) ELSE None

\* The escape key examined after the countdown of a running effect.
TickEscapeAfterCountdown ==
    \E raw \in RawInputs :
        LET inp == input(raw, last_input)
        IN  /\ Begin(inp)
            /\ was_pressed(inp.escape, ticker + 1)
            /\ effect' = IF effect = NoEffect THEN NoEffect
                         ELSE Some([Unwrap(effect) EXCEPT !.life = Countdown(@)])
            /\ change' = [ kind |-> "Pop", inputting_score |-> None ]
            /\ last_tick' = Idle("escape")
            /\ UNCHANGED << field, active_piece, fall_ticks, fall_counter,
                            fall_accel_counter, next_pieces, rotated, score,
                            effect_set_at, play_ticks, call, app_vars >>

\* `if was_pressed(input.escape, self.ticker) { return Pop }`
TickEscape ==
    \E raw \in RawInputs :
        LET inp == input(raw, last_input)
        IN  /\ Begin(inp)
            /\ was_pressed(inp.escape, ticker + 1)
            /\ change' = [ kind |-> "Pop", inputting_score |-> None ]
            /\ last_tick' = Idle("escape")
            /\ UNCHANGED << field, active_piece, fall_ticks, fall_counter,
                            fall_accel_counter, next_pieces, rotated, score,
                            effect, effect_set_at, play_ticks, call, app_vars >>

\* `if let Some(effect) = &mut self.effect { ... continue; }`
TickEffect ==
    \E raw \in RawInputs :
        LET inp  == input(raw, last_input)
            eff  == Unwrap(effect)
            life == Countdown(eff.life)
        IN  /\ Begin(inp)
            /\ ~was_pressed(inp.escape, ticker + 1)
            /\ effect # NoEffect
            /\ field' = IF eff.ty = "LinesCleared" /\ life = 0
                        THEN DeleteLines(field, eff.lines)
                        ELSE field
            /\ change' = IF eff.ty = "GameOver" /\ life = 0
                         THEN [ kind |-> "Swap", inputting_score |-> PendingScore(score) ]
                         ELSE NoChange
            /\ effect' = IF life = 0 /\ eff.ty # "GameOver"
                         THEN NoEffect
                         ELSE Some([eff EXCEPT !.life = life])
            /\ last_tick' = [ Idle("effect") EXCEPT
                                !.removed = IF eff.ty = "LinesCleared" /\ life = 0
                                            THEN eff.lines ELSE << >> ]
            /\ UNCHANGED << active_piece, fall_ticks, fall_counter,
                            fall_accel_counter, next_pieces, rotated, score,
                            effect_set_at, play_ticks, call, app_vars >>

\* `if self.active_piece.is_none()` and the dequeued piece does not fit.
TickGameOver ==
    \E raw \in RawInputs : \E index \in ShapeIds :
        LET inp        == input(raw, last_input)
            test_piece == Head(next_pieces)
        IN  /\ play_ticks < MaxPlayTicks
            /\ Begin(inp)
            /\ ~was_pressed(inp.escape, ticker + 1)
            /\ effect = NoEffect
            /\ active_piece = None
            /\ next_pieces' = Append(Tail(next_pieces), NewPiece(index))
            /\ ~piece_fits(test_piece, field)
            /\ effect' = Some([ ty |-> "GameOver", lines |-> << >>,
                                life |-> GAME_OVER_LIFE ])
            /\ change' = NoChange
            /\ last_tick' = Idle("game_over")
            /\ effect_set_at' = ticker + 1
            /\ play_ticks' = play_ticks + 1
            /\ UNCHANGED << field, active_piece, fall_ticks, fall_counter,
                            fall_accel_counter, rotated, score, call, app_vars >>

\* `if self.active_piece.is_none()` and the dequeued piece fits: it becomes
\* the active piece and the tick goes on with the piece logic.
TickSpawn ==
    \E raw \in RawInputs : \E index \in ShapeIds :
        LET inp        == input(raw, last_input)
            test_piece == Head(next_pieces)
        IN  /\ play_ticks < MaxPlayTicks
            /\ Begin(inp)
            /\ ~was_pressed(inp.escape, ticker + 1)
            /\ effect = NoEffect
            /\ active_piece = None
            /\ next_pieces' = Append(Tail(next_pieces), NewPiece(index))
            /\ piece_fits(test_piece, field)
            /\ Play(inp, test_piece, Some(test_piece))
            /\ UNCHANGED << call, app_vars >>

\* A tick with an active piece and no effect.
TickPiece ==
    \E raw \in RawInputs :
        LET inp == input(raw, last_input)
        IN  /\ play_ticks < MaxPlayTicks
            /\ Begin(inp)
            /\ ~was_pressed(inp.escape, ticker + 1)
            /\ effect = NoEffect
            /\ active_piece # None
            /\ Play(inp, Unwrap(active_piece), None)
            /\ UNCHANGED << next_pieces, call, app_vars >>

----------------------------------------------------------------------------
(* The states a run starts in                                              *)

\* The piece moved down as long as it fits.
RECURSIVE DropPiece(_, _)
DropPiece(piece, fld) ==
    IF piece_fits([piece EXCEPT !.y = piece.y + 1], fld)
    THEN DropPiece([piece EXCEPT !.y = piece.y + 1], fld)
    ELSE piece

\* The field after a piece of shape p[1], turned to rotation p[2] and moved
\* to x = p[3] at the top, has fallen and frozen.
Land(fld, p) ==
    add_piece(DropPiece([NewPiece(p[1]) EXCEPT !.rot = p[2], !.x = p[3]], fld), fld)

\* The field after the pieces of `ps` have landed one after the other.
RECURSIVE Stack(_, _)
Stack(fld, ps) ==
    IF ps = << >> THEN fld ELSE Stack(Land(fld, Head(ps)), Tail(ps))

\* Squares on columns 0..7 (rows 18 and 19).
SquareRow == << <<0, 0, -1>>, <<0, 0, 1>>, <<0, 0, 3>>, <<0, 0, 5>> >>
\* Two bars lying on columns 0..7.
BarRow == << <<1, 1, 0>>, <<1, 1, 4>> >>
\* A bar standing in column 8.
BarCol8 == << <<1, 0, 6>> >>
\* A bar standing in column 5 (below the spawn position).
BarCol5 == << <<1, 0, 3>> >>

\* Rows 19 / 18..19 / 17..19 / 16..19 full except for column 9.
FieldOne   == Stack(EmptyField, BarRow \o BarCol8)
FieldTwo   == Stack(EmptyField, SquareRow \o BarCol8)
FieldThree == Stack(EmptyField, SquareRow \o BarRow \o BarCol8)
FieldFour  == Stack(EmptyField, SquareRow \o SquareRow \o BarCol8)
\* Rows 17 and 19 full except for column 9, row 18 with a hole in column 6.
FieldSplit ==
    Stack(EmptyField,
          BarRow \o << <<0, 0, -1>>, <<0, 0, 1>>, <<0, 0, 3>>, <<6, 2, 5>> >> \o BarCol8)
\* Column 6 filled from row 4 down: a bar moved right on its spawn tick
\* freezes at once and leaves the spawn position free.
FieldHigh == Stack(EmptyField, << <<1, 0, 4>>, <<1, 0, 4>>, <<1, 0, 4>>, <<1, 0, 4>> >>)
\* Column 5 filled from row 0 down.
FieldTop  == Stack(EmptyField, BarCol5 \o BarCol5 \o BarCol5 \o BarCol5 \o BarCol5)

\* A bar standing in column 9, `above` rows above its landing row.
BarCol9(above) == Some([NewPiece(1) EXCEPT !.x = 7, !.y = 16 - above])

Queue(a, b, c) == << NewPiece(a), NewPiece(b), NewPiece(c) >>

\* A state of a game in progress.
MidGame(fld, piece, queue, ticks, counter, accel, tick, sc) ==
    [ field |-> fld, active_piece |-> piece, next_pieces |-> queue,
      fall_ticks |-> ticks, fall_counter |-> counter,
      fall_accel_counter |-> accel, ticker |-> tick, score |-> sc ]

\* TetrisMain::default(): the state of a new game.
NewGames ==
    { MidGame(EmptyField, None, Queue(a, b, c), FALL_TICKS_START, FALL_TICKS_START,
              FALL_ACCEL_TICKS, 0, 0) : a \in ShapeIds, b \in ShapeIds, c \in ShapeIds }

\* States of games in progress, each reachable from a new game.
GamesInProgress ==
    { MidGame(FieldOne,   BarCol9(1), Queue(0, 1, 0),  1,  1,  1, 9013, 1200),
      MidGame(FieldTwo,   BarCol9(0), Queue(1, 0, 0), 20,  7, 10,  640,    0),
      MidGame(FieldThree, BarCol9(1), Queue(0, 0, 1), 20,  1,  3, 2381,  300),
      MidGame(FieldFour,  BarCol9(1), Queue(1, 1, 0),  2,  2,  3, 7120,  800),
      MidGame(FieldSplit, BarCol9(0), Queue(0, 1, 1), 20, 20, 10,  910,  100),
      MidGame(FieldHigh,  None,       Queue(1, 0, 1),  1,  1,  5, 9500, 4000),
      MidGame(FieldTop,   None,    Queue(0, 1, 0), 20, 20, 10,  450,    0),
      MidGame(FieldTop,   None,    Queue(1, 0, 0), 20, 20,  6,  731,  800) }

Init ==
    /\ \E g \in NewGames \cup GamesInProgress :
          /\ field = g.field
          /\ active_piece = g.active_piece
          /\ next_pieces = g.next_pieces
          /\ fall_ticks = g.fall_ticks
          /\ fall_counter = g.fall_counter
          /\ fall_accel_counter = g.fall_accel_counter
          /\ ticker = g.ticker
          /\ score = g.score
    /\ rotated = FALSE
    /\ last_input = DefaultInput
    /\ effect = NoEffect
    /\ change = NoChange
    /\ last_tick = Idle("none")
    /\ effect_set_at = 0
    /\ play_ticks = 0
    /\ call = None
    /\ states = << MenuBeneath, GameScreen >>
    /\ should_close = FALSE
    /\ file = None

Next ==
    \/ TickEscape
    \/ TickEffect
    \/ TickGameOver
    \/ TickSpawn
    \/ TickPiece

Spec == Init /\ [][Next]_vars

----------------------------------------------------------------------------
(* piece_fits as a function: SpecFits calls it on pieces placed on and     *)
(* around the board                                                        *)

\* How far off the board the tested pieces are placed, in cells.
OffBoard == 2

TestPieces ==
    { [NewPiece(i) EXCEPT !.rot = r, !.x = px, !.y = py] :
        i \in 0..(Len(PIECES) - 1), r \in 0..3,
        px \in (0 - OffBoard)..(FIELD_WIDTH - 4 + OffBoard),
        py \in (0 - OffBoard)..(FIELD_HEIGHT - 4 + OffBoard) }

TestFields == { EmptyField, FieldFour, FieldTop }

InitFits ==
    /\ \E p \in TestPieces : \E f \in TestFields :
          call = [ fn |-> "piece_fits", piece |-> p, field |-> f, ret |-> None ]
    /\ field = EmptyField
    /\ active_piece = None
    /\ next_pieces = Queue(0, 0, 0)
    /\ fall_ticks = FALL_TICKS_START
    /\ fall_counter = FALL_TICKS_START
    /\ fall_accel_counter = FALL_ACCEL_TICKS
    /\ ticker = 0
    /\ score = 0
    /\ rotated = FALSE
    /\ last_input = DefaultInput
    /\ effect = NoEffect
    /\ change = NoChange
    /\ last_tick = Idle("none")
    /\ effect_set_at = 0
    /\ play_ticks = 0
    /\ states = << NewMenu >>
    /\ should_close = FALSE
    /\ file = None

CallPieceFits ==
    /\ call.ret = None
    /\ call' = [call EXCEPT !.ret = Some(piece_fits(call.piece, call.field))]
    /\ UNCHANGED << engine_vars, app_vars >>

NextFits == CallPieceFits

SpecFits == InitFits /\ [][NextFits]_vars

\* The absolute positions <<column, row>> of the filled cells of a piece.
Cells(piece) ==
    { << piece.x + x, piece.y + y >> :
        << x, y >> \in { c \in (0..3) \X (0..3) : filled_at(piece, c[1], c[2]) } }

OnBoard(c) == c[1] >= 0 /\ c[1] < FIELD_WIDTH /\ c[2] >= 0 /\ c[2] < FIELD_HEIGHT

\* The cell of a field at column c[1], row c[2].
CellAt(fld, c) == fld[c[1] + c[2] * FIELD_WIDTH]

----------------------------------------------------------------------------
(* The claims about the engine, checked under Spec                         *)

Rows == 0..(FIELD_HEIGHT - 1)

\* Row y of a field, as a function of the column.
Row(fld, y) == [ x \in 0..(FIELD_WIDTH - 1) |-> fld[x + y * FIELD_WIDTH] ]

EmptyRow == [ x \in 0..(FIELD_WIDTH - 1) |-> Empty ]

\* The rows of a field in which every cell is Full.
FullRows(fld) == { y \in Rows : \A x \in 0..(FIELD_WIDTH - 1) : Row(fld, y)[x] # Empty }

\* The k-th (from 0) row, counted from the top, among the rows not in R.
KeptRow(R, k) == CHOOSE y \in Rows \ R : Cardinality({ j \in Rows \ R : j < y }) = k

\* The field `after` is the field `before` with the rows of R deleted: |R|
\* empty rows on top, then the rows not in R in their order.
RowsDeleted(before, R, after) ==
    \A y \in Rows :
        Row(after, y) = IF y < Cardinality(R) THEN EmptyRow
                        ELSE Row(before, KeptRow(R, y - Cardinality(R)))

\* The effect is a LinesCleared / a GameOver effect.
LinesCleared == effect # None /\ Unwrap(effect).ty = "LinesCleared"
GameOver == effect # None /\ Unwrap(effect).ty = "GameOver"

\* The set of the rows a LinesCleared effect holds.
EffectRows == { Unwrap(effect).lines[i] : i \in 1..Len(Unwrap(effect).lines) }

\* C2: when a LinesCleared effect holding the rows R expires, the field is the
\* field before with the rows of R deleted, the other rows kept in their order
\* at the bottom and |R| empty rows on top; for a single row, every row above
\* it moves down by one and row 0 becomes empty.
C2_ExpiryDeletesRows ==
    [][ (LinesCleared /\ effect' = None) =>
          /\ Cardinality(EffectRows) = Len(Unwrap(effect).lines)
          /\ Cardinality(EffectRows) \in 1..4
          /\ RowsDeleted(field, EffectRows, field')
          /\ \A r \in Rows :
                EffectRows = { r } =>
                  /\ Row(field', 0) = EmptyRow
                  /\ \A y \in 1..r : Row(field', y) = Row(field, y - 1)
                  /\ \A y \in Rows : y > r => Row(field', y) = Row(field, y)
      ]_vars

\* An effect holding the two rows 17 and 19, which are not adjacent, has
\* expired and the rows are removed.
C2_Witness ==
    /\ last_tick.branch = "effect"
    /\ last_tick.removed = << 17, 19 >>
    /\ effect = None
    /\ field[6 + 19 * FIELD_WIDTH] = Empty
    /\ field[7 + 19 * FIELD_WIDTH] # Empty

\* C3: a freeze that completes rows removes nothing on its tick; it sets a
\* LinesCleared effect of 20 ticks; the field stays as it is for the next 19
\* ticks and the rows are removed exactly on the 20th tick after the freeze,
\* on which the effect is cleared.
C3_RemovalAfterTwentyTicks ==
    /\ [][ (last_tick'.branch = "play" /\ last_tick'.froze /\ FullRows(field') # {}) =>
              /\ effect' = Some([ ty |-> "LinesCleared",
                                  lines |-> last_tick'.deletable, life |-> 20 ])
              /\ { last_tick'.deletable[i] : i \in 1..Len(last_tick'.deletable) }
                    = FullRows(field')
              /\ effect_set_at' = ticker'
       ]_vars
    /\ [][ (LinesCleared /\ last_tick'.branch = "effect") =>
              /\ ticker' - effect_set_at \in 1..20
              /\ Unwrap(effect).life = 20 - (ticker - effect_set_at)
              /\ ticker' - effect_set_at < 20 => (field' = field /\ effect' # None)
              /\ ticker' - effect_set_at = 20 =>
                    (effect' = None /\ FullRows(field) # {} /\ FullRows(field') = {})
       ]_vars

\* The rows of an effect have been removed on the 20th tick after the freeze.
C3_Witness ==
    /\ last_tick.branch = "effect"
    /\ last_tick.removed # << >>
    /\ ticker = effect_set_at + 20
    /\ effect = None

\* The points of the table for n rows.
Points(n) ==
    CASE n = 0 -> 0 [] n = 1 -> 100 [] n = 2 -> 300 [] n = 3 -> 500 [] n = 4 -> 800

\* C4: a freeze that completes 1, 2, 3 or 4 rows adds 100, 300, 500 or 800 to
\* the score on its tick, a freeze that completes none adds nothing, no other
\* number of rows is completed, and nothing else changes the score.
C4_ScoreTable ==
    [][ LET n == IF last_tick'.branch = "play" /\ last_tick'.froze
                 THEN Cardinality(FullRows(field'))
                 ELSE 0
        IN  n \in 0..4 /\ score' = score + Points(n)
      ]_vars

\* A freeze has completed 4 rows and 800 is added to the 800 of before.
C4_Witness ==
    /\ last_tick.froze
    /\ Cardinality(FullRows(field)) = 4
    /\ score = 1600

\* C5: on a tick that runs the effect branch and on which the effect does not
\* expire, only the lifetime of the effect (one less), the tick counter (one
\* more) and the debounced input change.
C5_EffectTickFrame ==
    [][ (effect # None /\ last_tick'.branch = "effect" /\ Unwrap(effect).life # 1) =>
          /\ effect' = Some([ Unwrap(effect) EXCEPT !.life = Unwrap(effect).life - 1 ])
          /\ ticker' = ticker + 1
          /\ UNCHANGED << field, active_piece, next_pieces, score, fall_ticks,
                          fall_counter, fall_accel_counter, rotated >>
      ]_vars

\* An effect is half way through its lifetime.
C5_Witness ==
    /\ last_tick.branch = "effect"
    /\ LinesCleared
    /\ Unwrap(effect).life = 10
    /\ last_input.left = "Holding"

\* C6: a dequeued piece that does not fit raises a GameOver effect of 60 ticks,
\* does not become active and ends the tick; exactly 60 ticks later (unless
\* escape ends the screen before) the screen returns Swap(Scoreboard), with the
\* score as the pending entry when it is greater than 0 and none when it is 0.
C6_GameOverAfterSixtyTicks ==
    /\ [][ ( /\ effect = None /\ active_piece = None
             /\ ~piece_fits(Head(next_pieces), field)
             /\ last_tick'.branch # "escape" ) =>
              /\ effect' = Some([ ty |-> "GameOver", lines |-> << >>, life |-> 60 ])
              /\ effect_set_at' = ticker'
              /\ active_piece' = None
              /\ change'.kind = "None"
              /\ UNCHANGED << field, score, fall_ticks, fall_counter,
                              fall_accel_counter, rotated >>
       ]_vars
    /\ [][ (GameOver /\ last_tick'.branch # "escape") =>
              /\ ticker' - effect_set_at \in 1..60
              /\ (change'.kind = "Swap") <=> (ticker' - effect_set_at = 60)
              /\ (change'.kind = "None") <=> (ticker' - effect_set_at < 60)
              /\ score' = score
       ]_vars
    /\ [](change.kind = "Swap" =>
              /\ GameOver
              /\ ticker = effect_set_at + 60
              /\ score > 0 => change.inputting_score = Some(score)
              /\ score = 0 => change.inputting_score = None)

\* The screen has handed over to the scoreboard with no pending entry, 60
\* ticks after the spawn that failed.
C6_Witness ==
    /\ change.kind = "Swap"
    /\ change.inputting_score = None
    /\ score = 0
    /\ ticker = effect_set_at + 60

\* The piece a tick with no effect and no active piece takes from the queue.
SpawnTick == effect = None /\ active_piece = None /\ last_tick'.branch # "escape"

\* C7: a tick with no effect and no active piece removes the head of the queue
\* and appends one new piece of a shape id in 0..6, the queue holds 3 pieces
\* after every tick, a head that fits becomes the active piece at x = 3, y = 0,
\* rotation 0 with the colour of its shape, and the queue changes in no other
\* way, so that pieces become active in the order in which they entered it.
C7_QueueIsFifo ==
    /\ [](/\ Len(next_pieces) = 3
          /\ \A i \in 1..3 : \E id \in 0..6 :
                next_pieces[i] = [ x |-> 3, y |-> 0, rot |-> 0, shape |-> id,
                                   color |-> PIECE_COLORS[id + 1] ])
    /\ [][ SpawnTick =>
              /\ SubSeq(next_pieces', 1, 2) = Tail(next_pieces)
              /\ piece_fits(Head(next_pieces), field) =>
                    /\ last_tick'.spawned = Some(Head(next_pieces))
                    /\ active_piece' # None =>
                          /\ Unwrap(active_piece').shape = Head(next_pieces).shape
                          /\ Unwrap(active_piece').color = Head(next_pieces).color
              /\ ~piece_fits(Head(next_pieces), field) =>
                    (last_tick'.spawned = None /\ active_piece' = None)
       ]_vars
    /\ [][ ~SpawnTick => (next_pieces' = next_pieces /\ last_tick'.spawned = None) ]_vars

\* The second piece of the queue of a run has become active after the first
\* one, and the third one is now at the head.
C7_Witness ==
    /\ ticker = 9502
    /\ play_ticks = 2
    /\ last_tick.spawned = Some([ x |-> 3, y |-> 0, rot |-> 0, shape |-> 0, color |-> "Red" ])
    /\ Head(next_pieces).shape = 1
    /\ active_piece # None

\* C8: on every tick with an active piece the acceleration counter is
\* decremented by 1 (and reset to 10 when it reaches 0). The code tests the
\* counter against 0 on these ticks and never decrements it.
C8_CounterTicksDown ==
    [][ (last_tick'.branch = "play" /\ ~last_tick'.froze) =>
            fall_accel_counter' =
                IF fall_accel_counter - 1 = 0 THEN 10 ELSE fall_accel_counter - 1
      ]_vars

\* What the code does instead: a tick with an active piece leaves the counter
\* alone unless it is 0; when it is 0, fall_ticks is reduced by 1 (never below
\* 1) and the counter is reset to 10; the counter is lowered only by a freeze
\* that completes rows, by their number and not below 0; nothing else changes
\* fall_ticks or the counter.
AccelerationOnZeroCounter ==
    [][ IF last_tick'.branch = "play"
        THEN /\ fall_ticks' = IF fall_accel_counter # 0 THEN fall_ticks
                              ELSE IF fall_ticks > 2 THEN fall_ticks - 1 ELSE 1
             /\ LET reset == IF fall_accel_counter = 0 THEN 10 ELSE fall_accel_counter
                    rows  == Cardinality(FullRows(field'))
                IN  fall_accel_counter' = IF reset > rows THEN reset - rows ELSE 0
        ELSE fall_ticks' = fall_ticks /\ fall_accel_counter' = fall_accel_counter
      ]_vars

\* A tick that found the counter at 0 has kept fall_ticks at its floor of 1
\* and reset the counter.
AccelerationAtFloor ==
    /\ last_tick.branch = "play"
    /\ ticker > 9013 /\ ticker < 9100
    /\ effect_set_at > 9013
    /\ fall_ticks = 1
    /\ fall_accel_counter = 10

\* C9: every tick with an active piece that sees a rotate key in state Pressed
\* makes a rotation attempt.
C9_EveryPressRotates ==
    [][ ( /\ last_tick'.branch = "play"
          /\ (last_input'.rot_right = "Pressed" \/ last_input'.rot_left = "Pressed") ) =>
            last_tick'.rot_attempt # "none"
      ]_vars

\* The piece a tick with an active piece starts from.
PieceBefore == IF active_piece # None THEN Unwrap(active_piece) ELSE Head(next_pieces)

\* C10: on every tick with an active piece the fall counter is decremented by
\* 1, should_fall holds exactly when it has reached 0 or was_pressed(down)
\* holds, the counter is reset to fall_ticks whenever should_fall holds, and the
\* piece is moved down (or frozen) exactly on the ticks on which it holds.
C10_FallCounter ==
    [][ last_tick'.branch = "play" =>
          LET down == \/ last_input'.down = "Pressed"
                      \/ (last_input'.down = "Holding" /\ ticker' % 2 = 0)
          IN  /\ last_tick'.should_fall <=> (fall_counter = 1 \/ down)
              /\ fall_counter' = IF last_tick'.should_fall
                                 THEN fall_ticks' ELSE fall_counter - 1
              /\ fall_counter' \in 1..fall_ticks'
              /\ last_tick'.should_fall <=>
                    \/ last_tick'.froze
                    \/ (active_piece' # None /\ Unwrap(active_piece').y = PieceBefore.y + 1)
              /\ ~last_tick'.should_fall =>
                    (active_piece' # None /\ Unwrap(active_piece').y = PieceBefore.y)
      ]_vars

\* The counter has reached 0 with the down key released and the piece has
\* moved down one row; the counter is back at fall_ticks.
C10_Witness ==
    /\ last_tick.branch = "play"
    /\ last_tick.should_fall
    /\ ~last_tick.froze
    /\ last_input.down = "Released"
    /\ fall_ticks = 2
    /\ fall_counter = 2
    /\ active_piece # None

----------------------------------------------------------------------------
(* Fall and freeze                                                         *)

\* A piece fits: each of its filled cells is on the board and on an Empty cell.
Fits(piece, fld) == \A c \in Cells(piece) : OnBoard(c) /\ CellAt(fld, c) = Empty

\* The field with the colour of the piece in the cells the piece fills.
Stamped(piece, fld) ==
    [ o \in 0..(FieldLen - 1) |->
        IF \E c \in Cells(piece) : OnBoard(c) /\ o = c[1] + c[2] * FIELD_WIDTH
        THEN piece.color
        ELSE fld[o] ]

\* The elements of a sequence.
Range(seq) == { seq[i] : i \in 1..Len(seq) }

\* C11: on a tick on which should_fall holds, if the piece (as rotated and
\* moved by this tick) does not fit one row lower, its filled cells are written
\* into the field in its colour, the rows of its 4-row window that are full are
\* collected and the active piece becomes absent, and when no row is collected
\* no effect is set and the score is unchanged; if it fits one row lower, its y
\* grows by exactly 1 and the field is unchanged.
C11_FallOrFreeze ==
    [][ (last_tick'.branch = "play" /\ last_tick'.should_fall) =>
            LET p     == Unwrap(last_tick'.piece)
                below == [p EXCEPT !.y = p.y + 1]
            IN  IF Fits(below, field)
                THEN /\ active_piece' = Some(below)
                     /\ field' = field
                     /\ ~last_tick'.froze
                ELSE /\ field' = Stamped(p, field)
                     /\ active_piece' = None
                     /\ last_tick'.froze
                     /\ Range(last_tick'.deletable) =
                            { y \in FullRows(field') : y >= p.y /\ y < p.y + 4 }
                     /\ (last_tick'.deletable = << >> =>
                            (effect' = NoEffect /\ score' = score))
      ]_vars

\* A bar moved onto the stack of column 6 on its spawn tick has frozen in rows
\* 0..3: it completed no row, no effect is set and the score is as before.
C11_Witness ==
    /\ last_tick.branch = "play"
    /\ last_tick.froze
    /\ last_tick.deletable = << >>
    /\ active_piece = None
    /\ effect = NoEffect
    /\ field[6 + 0 * FIELD_WIDTH] = "Orange"
    /\ score = 4000

----------------------------------------------------------------------------
(* The fall of one piece: SpecDrop spawns the square on an empty field and  *)
(* runs the ticks of the Game until the piece has frozen                    *)

\* Games whose field is empty and whose next piece is the square, at the
\* fall speed at which should_fall holds on every tick (fall_ticks = 1).
DropGames ==
    { MidGame(EmptyField, None, Queue(0, 1, 0), 1, 1, FALL_ACCEL_TICKS, g[1], g[2]) :
        g \in { << 0, 0 >>, << 5021, 2600 >> } }

\* The raw key readings of a tick of the run.
DropInputs == { {}, {"down"}, {"right"}, {"rot_left"} }

InitDrop ==
    /\ \E g \in DropGames :
          /\ field = g.field
          /\ active_piece = g.active_piece
          /\ next_pieces = g.next_pieces
          /\ fall_ticks = g.fall_ticks
          /\ fall_counter = g.fall_counter
          /\ fall_accel_counter = g.fall_accel_counter
          /\ ticker = g.ticker
          /\ score = g.score
    /\ rotated = FALSE
    /\ last_input = DefaultInput
    /\ effect = NoEffect
    /\ change = NoChange
    /\ last_tick = Idle("none")
    /\ effect_set_at = 0
    /\ play_ticks = 0
    /\ call = None
    /\ states = << MenuBeneath, GameScreen >>
    /\ should_close = FALSE
    /\ file = None

\* The first tick of the run: the square is dequeued and becomes active.
DropSpawn ==
    \E raw \in DropInputs : \E index \in ShapeIds :
        LET inp        == input(raw, last_input)
            test_piece == Head(next_pieces)
        IN  /\ play_ticks = 0
            /\ Begin(inp)
            /\ ~was_pressed(inp.escape, ticker + 1)
            /\ effect = NoEffect
            /\ active_piece = None
            /\ next_pieces' = Append(Tail(next_pieces), NewPiece(index))
            /\ piece_fits(test_piece, field)
            /\ Play(inp, test_piece, Some(test_piece))
            /\ UNCHANGED << call, app_vars >>

\* A later tick of the run, as long as the square is active.
DropTick ==
    \E raw \in DropInputs :
        LET inp == input(raw, last_input)
        IN  /\ Begin(inp)
            /\ ~was_pressed(inp.escape, ticker + 1)
            /\ effect = NoEffect
            /\ active_piece # None
            /\ Play(inp, Unwrap(active_piece), None)
            /\ UNCHANGED << next_pieces, call, app_vars >>

NextDrop ==
    \/ DropSpawn
    \/ DropTick

SpecDrop == InitDrop /\ [][NextDrop]_vars

\* The ticks of the run so far. should_fall holds on each of them, so they are
\* the consecutive qualifying falls of the piece.
QualifyingFalls == play_ticks

\* C12 as stated: the square spawned at (3, 0) on the empty field keeps falling
\* for 19 qualifying ticks and lands on the 20th, where it freezes with no row
\* completed, the active piece absent and the score unchanged.
C12_LandsOnTwentiethFall ==
    [][ (last_tick'.branch = "play" /\ last_tick'.should_fall) =>
            /\ (QualifyingFalls' <= 19 => ~last_tick'.froze)
            /\ (QualifyingFalls' = 20 =>
                    /\ last_tick'.froze
                    /\ active_piece' = None /\ effect' = NoEffect /\ score' = score)
      ]_vars

\* C12, with the count the code gives: the square occupies rows 1 and 2 of its
\* bitmap, so it falls on 17 qualifying ticks (to y = 17, its cells in rows 18
\* and 19) and on the 18th it lands and freezes; no row is completed, the
\* active piece becomes absent and the score is unchanged.
C12_LandsOnEighteenthFall ==
    [][ last_tick'.branch = "play" =>
            /\ last_tick'.should_fall
            /\ (play_ticks = 0 => last_tick'.spawned = Some(NewPiece(0)))
            /\ (QualifyingFalls' <= 17 =>
                    /\ ~last_tick'.froze
                    /\ Unwrap(active_piece').y = QualifyingFalls')
            /\ (QualifyingFalls' = 18 =>
                    /\ last_tick'.froze
                    /\ last_tick'.deletable = << >>
                    /\ field'[Unwrap(last_tick'.piece).x + 1 + 19 * FIELD_WIDTH] = "Red"
                    /\ active_piece' = None /\ effect' = NoEffect /\ score' = score)
            /\ QualifyingFalls' <= 18
      ]_vars

\* The square has frozen in rows 18 and 19 on the 18th qualifying tick of a
\* game that started with ticker 0 and score 0.
C12_Witness ==
    /\ last_tick.froze
    /\ QualifyingFalls = 18
    /\ play_ticks >= 18
    /\ ticker = play_ticks
    /\ active_piece = None
    /\ score = 0
    /\ \E x \in 0..(FIELD_WIDTH - 2) :
          \A c \in { x, x + 1 } : \A r \in { 18, 19 } : field[c + r * FIELD_WIDTH] = "Red"

----------------------------------------------------------------------------
(* Rotation and horizontal movement                                        *)

\* The piece a rotation attempt tests: the piece turned a quarter to the right
\* or to the left, at the same x and y.
Turned(piece, attempt) ==
    CASE attempt = "right" -> [piece EXCEPT !.rot = (piece.rot + 1) % 4]
      [] attempt = "left"  -> [piece EXCEPT !.rot = (piece.rot + 3) % 4]
      [] attempt = "none"  -> piece

\* C13: a rotation attempt leaves the piece turned by one quarter (+1 mod 4 to
\* the right, -1 mod 4 to the left) at the same x and y if the turned piece
\* fits there, and leaves rotation, x and y as they were if it does not; no
\* other position is tried. Neither the movement step nor the fall of the same
\* tick changes the rotation.
C13_RotationFrame ==
    [][ last_tick'.branch = "play" =>
            LET p0   == PieceBefore
                cand == Turned(p0, last_tick'.rot_attempt)
                r    == Unwrap(last_tick'.rot_piece)
            IN  /\ r = IF Fits(cand, field) THEN cand ELSE p0
                /\ Unwrap(last_tick'.piece).rot = r.rot
                /\ (active_piece' # None => Unwrap(active_piece').rot = r.rot)
      ]_vars

\* A rotation to the right of the bar standing in column 9 was attempted and
\* rejected (the lying bar would reach column 10): the bar is as it was.
C13_Witness ==
    /\ last_tick.branch = "play"
    /\ last_tick.rot_attempt = "right"
    /\ last_tick.spawned = None
    /\ Unwrap(last_tick.rot_piece).x = 7
    /\ Unwrap(last_tick.rot_piece).rot = 0
    /\ Unwrap(last_tick.rot_piece).shape = 1

\* A rotation to the left of a newly spawned bar was attempted and committed.
C13_Committed ==
    /\ last_tick.branch = "play"
    /\ last_tick.rot_attempt = "left"
    /\ Unwrap(last_tick.rot_piece).rot = 3
    /\ Unwrap(last_tick.rot_piece).shape = 1

\* A key in state `state` triggers on tick `tick`: it is Pressed, or it is
\* Holding and the tick is even.
Triggers(state, tick) == state = "Pressed" \/ (state = "Holding" /\ tick % 2 = 0)

\* The piece one column to the right (dx = 1) or to the left (dx = -1) if it
\* fits there, else the piece where it is.
Shifted(piece, dx, fld) ==
    IF Fits([piece EXCEPT !.x = piece.x + dx], fld)
    THEN [piece EXCEPT !.x = piece.x + dx]
    ELSE piece

\* C14: in one tick the piece moves by at most one column. If the right key
\* triggers, only a move to the right is attempted, also when the left key
\* triggers too and also when the move to the right is blocked; otherwise, if
\* the left key triggers, a move to the left is attempted; a move is committed
\* only if the moved piece fits, else x is unchanged. Nothing else in the tick
\* changes x.
C14_MoveFrame ==
    [][ last_tick'.branch = "play" =>
            LET r == Unwrap(last_tick'.rot_piece)
                m == Unwrap(last_tick'.piece)
            IN  /\ IF Triggers(last_input'.right, ticker')
                   THEN last_tick'.move_attempt = "right" /\ m = Shifted(r, 1, field)
                   ELSE IF Triggers(last_input'.left, ticker')
                   THEN last_tick'.move_attempt = "left" /\ m = Shifted(r, -1, field)
                   ELSE last_tick'.move_attempt = "none" /\ m = r
                /\ m.x - PieceBefore.x \in { -1, 0, 1 }
                /\ (active_piece' # None => Unwrap(active_piece').x = m.x)
      ]_vars

\* Both keys were pressed on the same tick with the bar in column 9: only the
\* move to the right was attempted, it was blocked by the wall, and the bar
\* did not move to the left either.
C14_Witness ==
    /\ last_tick.branch = "play"
    /\ last_input.right = "Pressed"
    /\ last_input.left = "Pressed"
    /\ last_tick.move_attempt = "right"
    /\ Unwrap(last_tick.piece).shape = 1
    /\ Unwrap(last_tick.piece).x = 7
    /\ last_tick.spawned = None

----------------------------------------------------------------------------
(* Escape                                                                  *)

\* C15: on every tick of the Game on which the escape key triggers, whatever
\* the engine is doing (a piece falling, no piece active, a LinesCleared or a
\* GameOver effect running), the tick returns Pop and changes neither the
\* field, the piece, the queue, the score, the effect nor the fall counters;
\* so a game left during the GameOver effect returns Pop and not the Swap that
\* hands its score over. A tick on which it does not trigger never returns Pop.
C15_EscapePopsFirst ==
    [][ IF Triggers(last_input'.escape, ticker')
        THEN /\ change' = [ kind |-> "Pop", inputting_score |-> None ]
             /\ UNCHANGED << field, active_piece, next_pieces, score, effect,
                             fall_ticks, fall_counter, fall_accel_counter, rotated >>
        ELSE change'.kind # "Pop"
      ]_vars

\* A game with a score of 800 was left while its GameOver effect was running.
C15_Witness ==
    /\ change.kind = "Pop"
    /\ GameOver
    /\ Unwrap(effect).life < GAME_OVER_LIFE
    /\ Unwrap(effect).life > 0
    /\ score = 800
    /\ last_input.escape = "Pressed"

\* The game was left with a piece falling / with no piece active / while
\* completed rows were waiting for their removal.
C15_LeftWhileFalling == change.kind = "Pop" /\ active_piece # None /\ ticker > 1
C15_LeftWithoutPiece == change.kind = "Pop" /\ active_piece = None /\ effect = NoEffect
C15_LeftWhileClearing == change.kind = "Pop" /\ LinesCleared

----------------------------------------------------------------------------
(* The debouncer as a function: SpecInput calls input() tick after tick on  *)
(* the readings of the keyboard                                             *)

\* The most keys that read down on one tick.
MaxKeysDown == 2

\* The length up to which the run of consecutive down readings of a key is
\* counted.
RunCap == 3

\* The readings of the keyboard on one tick: the keys that read down.
Readings == { raw \in SUBSET Keys : Cardinality(raw) <= MaxKeysDown }

\* A screen starts from PlayerInput::default() (Game, Scoreboard: no key has
\* read down) or from PlayerInput::all_pressed() (Menu: every key counts as
\* held). call.run[k] counts the consecutive down readings of key k.
InitInput ==
    /\ \/ call = [ fn |-> "input", last |-> DefaultInput, raw |-> {},
                   run |-> [ k \in Keys |-> 0 ], calls |-> 0 ]
       \/ call = [ fn |-> "input", last |-> all_pressed, raw |-> Keys,
                   run |-> [ k \in Keys |-> RunCap ], calls |-> 0 ]
    /\ field = EmptyField
    /\ active_piece = None
    /\ next_pieces = Queue(0, 0, 0)
    /\ fall_ticks = FALL_TICKS_START
    /\ fall_counter = FALL_TICKS_START
    /\ fall_accel_counter = FALL_ACCEL_TICKS
    /\ ticker = 0
    /\ score = 0
    /\ rotated = FALSE
    /\ last_input = DefaultInput
    /\ effect = NoEffect
    /\ change = NoChange
    /\ last_tick = Idle("none")
    /\ effect_set_at = 0
    /\ play_ticks = 0
    /\ states = << NewMenu >>
    /\ should_close = FALSE
    /\ file = None

\* `let input = input(window, self.last_input); self.last_input = input;`
CallInput ==
    \E raw \in Readings :
        /\ call' = [ fn    |-> "input",
                     last  |-> input(raw, call.last),
                     raw   |-> raw,
                     run   |-> [ k \in Keys |->
                                   IF k \notin raw THEN 0
                                   ELSE IF call.run[k] < RunCap THEN call.run[k] + 1
                                   ELSE RunCap ],
                     calls |-> IF call.calls < RunCap THEN call.calls + 1 ELSE RunCap ]
        /\ UNCHANGED << engine_vars, app_vars >>

NextInput == CallInput

SpecInput == InitInput /\ [][NextInput]_vars

\* C16: for every key on its own, the next state is Holding when the key
\* reads down and the previous state is Pressed or Holding, Pressed when it
\* reads down and the previous state is Released, and Released when it reads
\* up; so the first down reading after an up reading gives Pressed and every
\* further consecutive one gives Holding (three in a row from Released:
\* Pressed, Holding, Holding), a key is Pressed on exactly the first tick of a
\* continuous hold, and the unreachable arm is never taken.
C16_Debouncer ==
    [][ \A k \in Keys :
            LET prev == call.last[k]
                next == call'.last[k]
            IN  /\ next = IF k \in call'.raw
                          THEN (IF prev \in { "Pressed", "Holding" } THEN "Holding"
                                ELSE "Pressed")
                          ELSE "Released"
                /\ next # "unreachable"
                /\ (call'.run[k] = 0) = (next = "Released")
                /\ (call'.run[k] = 1) = (next = "Pressed")
                /\ (call'.run[k] >= 2) = (next = "Holding")
                /\ (next = "Pressed" => prev = "Released")
      ]_vars

\* A key that read up has read down three times in a row and is Holding after
\* the third, while another key is Pressed on its first down reading.
C16_Witness ==
    /\ call.fn = "input"
    /\ call.calls = 3
    /\ call.run["left"] = 3
    /\ call.last["left"] = "Holding"
    /\ call.run["down"] = 1
    /\ call.last["down"] = "Pressed"
    /\ call.last["escape"] = "Released"

----------------------------------------------------------------------------
(* The application: main's loop over the stack of screens, the Menu and the *)
(* Scoreboard. One step is one logic tick of the top screen, or main's      *)
(* handling of the StateChange that a tick has returned.                    *)

\* The logic ticks of the Menu and of a Scoreboard that one run explores.
MaxMenuTicks == 3
MaxScoresTicks == 2

\* The raw key readings of a tick of the Menu and of the Scoreboard.
MenuInputs ==
    { {}, {"up"}, {"down"}, {"rot_right"}, {"up", "rot_left"} }
ScoresInputs == { {}, {"escape"}, {"rot_right"} }

\* The engine variables while no TetrisMain exists.
NoGame == MidGame(EmptyField, None, Queue(0, 0, 0), FALL_TICKS_START, FALL_TICKS_START,
                  FALL_ACCEL_TICKS, 0, 0)

\* The fields of a TetrisMain `g` become the engine variables.
SetGame(g) ==
    /\ field' = g.field
    /\ active_piece' = g.active_piece
    /\ next_pieces' = g.next_pieces
    /\ fall_ticks' = g.fall_ticks
    /\ fall_counter' = g.fall_counter
    /\ fall_accel_counter' = g.fall_accel_counter
    /\ ticker' = g.ticker
    /\ score' = g.score
    /\ rotated' = FALSE
    /\ last_input' = DefaultInput
    /\ effect' = NoEffect
    /\ last_tick' = Idle("none")
    /\ effect_set_at' = 0

\* The stack with its top screen replaced.
WithTop(screen) == [ states EXCEPT ![Len(states)] = screen ]

\* A Menu whose "Quit" entry returns Pop, leaving it to main to close the
\* window when the stack is empty.
MenuConfirmQuitPops ==
    \E raw \in MenuInputs : \E g \in NewGames :
        LET menu == Top
            inp  == input(raw, menu.last_input)
        IN  /\ Running("Menu")
            /\ menu.ticker < MaxMenuTicks
            /\ inp.rot_left = "Pressed" \/ inp.rot_right = "Pressed"
            /\ states' = WithTop([menu EXCEPT !.ticker = @ + 1, !.last_input = inp])
            /\ CASE menu.selection = 0 ->
                      /\ change' = [ kind |-> "Push", inputting_score |-> None,
                                     screen |-> GameScreen ]
                      /\ SetGame(g)
                 [] menu.selection = 1 ->
                      /\ change' = [ kind |-> "Push", inputting_score |-> None,
                                     screen |-> NewScores(file, None) ]
                      /\ UNCHANGED << field, active_piece, next_pieces, fall_ticks,
                                      fall_counter, fall_accel_counter, ticker, score,
                                      rotated, last_input, effect, last_tick,
                                      effect_set_at >>
                 [] menu.selection = 2 ->
                      /\ change' = [ kind |-> "Pop", inputting_score |-> None ]
                      /\ UNCHANGED << field, active_piece, next_pieces, fall_ticks,
                                      fall_counter, fall_accel_counter, ticker, score,
                                      rotated, last_input, effect, last_tick,
                                      effect_set_at >>
            /\ UNCHANGED << play_ticks, call, should_close, file >>

\* TetrisMenu::update, a tick on which a rotate key is Pressed: the choice is
\* confirmed and the selection stays.
MenuConfirm ==
    \E raw \in MenuInputs : \E g \in NewGames :
        LET menu == Top
            inp  == input(raw, menu.last_input)
        IN  /\ Running("Menu")
            /\ menu.ticker < MaxMenuTicks
            /\ inp.rot_left = "Pressed" \/ inp.rot_right = "Pressed"
            /\ states' = WithTop([menu EXCEPT !.ticker = @ + 1, !.last_input = inp])
            /\ CASE menu.selection = 0 ->
                      /\ change' = [ kind |-> "Push", inputting_score |-> None,
                                     screen |-> GameScreen ]
                      /\ SetGame(g)
                 [] menu.selection = 1 ->
                      /\ change' = [ kind |-> "Push", inputting_score |-> None,
                                     screen |-> NewScores(file, None) ]
                      /\ UNCHANGED << field, active_piece, next_pieces, fall_ticks,
                                      fall_counter, fall_accel_counter, ticker, score,
                                      rotated, last_input, effect, last_tick,
                                      effect_set_at >>
                 [] menu.selection = 2 ->
                      /\ change' = [ kind |-> "Quit", inputting_score |-> None ]
                      /\ UNCHANGED << field, active_piece, next_pieces, fall_ticks,
                                      fall_counter, fall_accel_counter, ticker, score,
                                      rotated, last_input, effect, last_tick,
                                      effect_set_at >>
            /\ UNCHANGED << play_ticks, call, should_close, file >>

\* The selection after an up press, stopping at the first entry.
SelectUpNoWrap(sel) == IF sel = 0 THEN 0 ELSE sel - 1

\* The selection after an up press.
SelectUp(sel) == IF sel = 0 THEN 2 ELSE sel - 1

\* The selection after a down press, going on beyond the last entry.
SelectDownNoWrap(sel) == sel + 1

\* The selection after a down press.
SelectDown(sel) == IF sel = 2 THEN 0 ELSE sel + 1

\* TetrisMenu::update, a tick on which no rotate key is Pressed: up or down
\* moves the selection.
MenuSelect ==
    \E raw \in MenuInputs :
        LET menu == Top
            inp  == input(raw, menu.last_input)
            sel  == IF inp.up = "Pressed" THEN SelectUp(menu.selection)
                    ELSE IF inp.down = "Pressed" THEN SelectDown(menu.selection)
                    ELSE menu.selection
        IN  /\ Running("Menu")
            /\ menu.ticker < MaxMenuTicks
            /\ ~(inp.rot_left = "Pressed" \/ inp.rot_right = "Pressed")
            /\ states' = WithTop([menu EXCEPT !.ticker = @ + 1, !.last_input = inp,
                                              !.selection = sel])
            /\ UNCHANGED << engine_vars, call, should_close, file >>

\* The table after `scores.insert(index, entry)`.
InsertAt(table, index, entry) ==
    SubSeq(table, 1, index - 1) \o << entry >> \o SubSeq(table, index, Len(table))

\* The table after the pending score `sc` has been processed: sorted, the
\* entry ("PLR", sc) inserted before the first entry with a lower score (the
\* last entry dropped if the table then has more than 10) or pushed at the
\* end when there is none, and sorted again. A score of 0 is not entered.
EnterScore(table, sc) ==
    LET sorted == sort_scores(table)
        lower  == { i \in 1..Len(sorted) : sorted[i][2] < sc }
        index  == CHOOSE i \in lower : \A j \in lower : i <= j
        put    == InsertAt(sorted, index, << PLR, sc >>)
    IN  sort_scores(
            IF sc > 0
            THEN IF lower # {}
                 THEN (IF Len(put) > MAX_SCORES THEN SubSeq(put, 1, Len(put) - 1) ELSE put)
                 ELSE Append(sorted, << PLR, sc >>)
            ELSE sorted)

\* What a tick of the Scoreboard returns: Pop when escape is Pressed.
ScoresChange(inp) ==
    IF inp.escape = "Pressed" THEN [ kind |-> "Pop", inputting_score |-> None ]
    ELSE NoChange

\* A tick with a pending score that examines the escape key first and
\* returns Pop before the score is entered.
ScoresEnterAfterEscape ==
    \E raw \in ScoresInputs :
        LET s     == Top
            inp   == input(raw, s.last_input)
            table == EnterScore(s.scores, Unwrap(s.inputting_score))
        IN  /\ Running("Scores")
            /\ s.ticker < MaxScoresTicks
            /\ s.inputting_score # None
            /\ IF inp.escape = "Pressed"
               THEN /\ states' = WithTop([s EXCEPT !.ticker = @ + 1, !.last_input = inp])
                    /\ file' = file
               ELSE /\ states' = WithTop([s EXCEPT !.ticker = @ + 1, !.last_input = inp,
                                                   !.scores = table,
                                                   !.inputting_score = None])
                    /\ file' \in { Saved(table) } \cup SaveFailures(table, file)
            /\ change' = ScoresChange(inp)
            /\ UNCHANGED << field, active_piece, next_pieces, fall_ticks, fall_counter,
                            fall_accel_counter, ticker, score, rotated, last_input,
                            effect, last_tick, effect_set_at, play_ticks, call,
                            should_close >>

\* A tick with a pending score that returns early when save_scores fails,
\* leaving the score pending.
ScoresEnterUnlessSaveFails ==
    \E raw \in ScoresInputs :
        LET s     == Top
            inp   == input(raw, s.last_input)
            table == EnterScore(s.scores, Unwrap(s.inputting_score))
        IN  /\ Running("Scores")
            /\ s.ticker < MaxScoresTicks
            /\ s.inputting_score # None
            /\ \/ /\ file' = Saved(table)
                  /\ states' = WithTop([s EXCEPT !.ticker = @ + 1, !.last_input = inp,
                                                 !.scores = table,
                                                 !.inputting_score = None])
                  /\ change' = ScoresChange(inp)
               \/ /\ file' \in SaveFailures(table, file)
                  /\ states' = WithTop([s EXCEPT !.ticker = @ + 1, !.last_input = inp,
                                                 !.scores = table])
                  /\ change' = NoChange
            /\ UNCHANGED << field, active_piece, next_pieces, fall_ticks, fall_counter,
                            fall_accel_counter, ticker, score, rotated, last_input,
                            effect, last_tick, effect_set_at, play_ticks, call,
                            should_close >>

\* TetrisScores::update, a tick with a pending score: the score is entered,
\* the table saved (save_scores succeeds or fails, the error is printed) and the
\* pending score cleared; then the escape key is examined.
ScoresEnter ==
    \E raw \in ScoresInputs :
        LET s     == Top
            inp   == input(raw, s.last_input)
            table == EnterScore(s.scores, Unwrap(s.inputting_score))
        IN  /\ Running("Scores")
            /\ s.ticker < MaxScoresTicks
            /\ s.inputting_score # None
            /\ states' = WithTop([s EXCEPT !.ticker = @ + 1, !.last_input = inp,
                                           !.scores = table, !.inputting_score = None])
            /\ file' \in { Saved(table) } \cup SaveFailures(table, file)
            /\ change' = ScoresChange(inp)
            /\ UNCHANGED << field, active_piece, next_pieces, fall_ticks, fall_counter,
                            fall_accel_counter, ticker, score, rotated, last_input,
                            effect, last_tick, effect_set_at, play_ticks, call,
                            should_close >>

\* TetrisScores::update, a tick without a pending score.
ScoresShow ==
    \E raw \in ScoresInputs :
        LET s   == Top
            inp == input(raw, s.last_input)
        IN  /\ Running("Scores")
            /\ s.ticker < MaxScoresTicks
            /\ s.inputting_score = None
            /\ states' = WithTop([s EXCEPT !.ticker = @ + 1, !.last_input = inp])
            /\ change' = ScoresChange(inp)
            /\ UNCHANGED << field, active_piece, next_pieces, fall_ticks, fall_counter,
                            fall_accel_counter, ticker, score, rotated, last_input,
                            effect, last_tick, effect_set_at, play_ticks, call,
                            should_close, file >>

\* Vec::pop: the stack without its last element (an empty stack stays empty).
Popped(stack) == IF stack = << >> THEN << >> ELSE SubSeq(stack, 1, Len(stack) - 1)

\* The engine variables after main has handled a StateChange: the TetrisMain
\* is dropped when it leaves the stack.
AfterLeaving(screen) ==
    IF screen.kind = "Game"
    THEN SetGame(NoGame)
    ELSE UNCHANGED << field, active_piece, next_pieces, fall_ticks, fall_counter,
                      fall_accel_counter, ticker, score, rotated, last_input,
                      effect, last_tick, effect_set_at >>

\* main: the update of the top screen has returned a StateChange other than None.
Returned(kind) ==
    /\ ~should_close
    /\ states # << >>
    /\ change.kind = kind

\* `StateChange::Quit => window.set_should_close(true)`
MainQuit ==
    /\ Returned("Quit")
    /\ should_close' = TRUE
    /\ change' = NoChange
    /\ UNCHANGED << field, active_piece, next_pieces, fall_ticks, fall_counter,
                    fall_accel_counter, ticker, score, rotated, last_input,
                    effect, last_tick, effect_set_at, play_ticks, call, states, file >>

\* A push that puts the new screen in the place of the top screen.
MainPushInPlace ==
    /\ Returned("Push")
    /\ states' = Append(Popped(states), change.screen)
    /\ change' = NoChange
    /\ UNCHANGED << field, active_piece, next_pieces, fall_ticks, fall_counter,
                    fall_accel_counter, ticker, score, rotated, last_input,
                    effect, last_tick, effect_set_at, play_ticks, call,
                    should_close, file >>

\* `StateChange::Push(state) => states.push(state)`
MainPush ==
    /\ Returned("Push")
    /\ states' = Append(states, change.screen)
    /\ change' = NoChange
    /\ UNCHANGED << field, active_piece, next_pieces, fall_ticks, fall_counter,
                    fall_accel_counter, ticker, score, rotated, last_input,
                    effect, last_tick, effect_set_at, play_ticks, call,
                    should_close, file >>

\* `StateChange::Pop => if states.pop().is_none() { window.set_should_close(true) }`
MainPop ==
    /\ Returned("Pop")
    /\ states' = Popped(states)
    /\ should_close' = (states = << >>)
    /\ change' = NoChange
    /\ AfterLeaving(Top)
    /\ UNCHANGED << play_ticks, call, file >>

\* A swap that pushes the new screen without popping the old one.
MainSwapWithoutPop ==
    /\ Returned("Swap")
    /\ states' = Append(states, NewScores(file, change.inputting_score))
    /\ change' = NoChange
    /\ AfterLeaving(Top)
    /\ UNCHANGED << play_ticks, call, should_close, file >>

\* `StateChange::Swap(state) => { states.pop(); states.push(state); }`: the
\* state is the TetrisScores that the Game built with its score.
MainSwap ==
    /\ Returned("Swap")
    /\ states' = Append(Popped(states), NewScores(file, change.inputting_score))
    /\ change' = NoChange
    /\ AfterLeaving(Top)
    /\ UNCHANGED << play_ticks, call, should_close, file >>

\* The name "ANA" of an earlier player, as the bytes of the String.
ANA == << 65, 78, 65 >>

\* A well-formed score file holding `entries` in their order.
FileOf(entries) ==
    Some(MAGIC \o to_le_bytes(Len(entries), 1) \o entries_bytes(entries))

\* The files the run may find: none, or one with two entries.
AppFiles == { None, FileOf(<< << PLR, 300 >>, << ANA, 1200 >> >>) }

\* The application right after its start, or with a game in progress that
\* the Menu has pushed: one whose next piece does not fit any more. The depth
\* of a game is explored under Spec; here a run has two play ticks of its
\* budget left.
InitApp ==
    /\ \/ /\ states = << NewMenu >>
          /\ \E g \in { NoGame } :
                /\ field = g.field
                /\ active_piece = g.active_piece
                /\ next_pieces = g.next_pieces
                /\ fall_ticks = g.fall_ticks
                /\ fall_counter = g.fall_counter
                /\ fall_accel_counter = g.fall_accel_counter
                /\ ticker = g.ticker
                /\ score = g.score
       \/ /\ states = << MenuBeneath, GameScreen >>
          /\ \E g \in { h \in GamesInProgress : h.field = FieldTop } :
                /\ field = g.field
                /\ active_piece = g.active_piece
                /\ next_pieces = g.next_pieces
                /\ fall_ticks = g.fall_ticks
                /\ fall_counter = g.fall_counter
                /\ fall_accel_counter = g.fall_accel_counter
                /\ ticker = g.ticker
                /\ score = g.score
    /\ file \in AppFiles
    /\ rotated = FALSE
    /\ last_input = DefaultInput
    /\ effect = NoEffect
    /\ change = NoChange
    /\ last_tick = Idle("none")
    /\ effect_set_at = 0
    /\ play_ticks = MaxPlayTicks - 2
    /\ call = None
    /\ should_close = FALSE

NextApp ==
    \/ MenuConfirm
    \/ MenuSelect
    \/ TickEscape
    \/ TickEffect
    \/ TickGameOver
    \/ TickSpawn
    \/ TickPiece
    \/ ScoresEnter
    \/ ScoresShow
    \/ MainQuit
    \/ MainPush
    \/ MainPop
    \/ MainSwap

SpecApp == InitApp /\ [][NextApp]_vars

----------------------------------------------------------------------------
(* The stack of screens                                                    *)

\* The screens beneath the top of a stack.
Beneath(stack) == Popped(stack)

\* C17: main handles a Push by putting the new screen above the Menu as the
\* Menu's tick left it; while a screen lies beneath the top it does not change
\* (a tick changes at most the top screen, and the Game's variables only while
\* the Game is the top); and when the pushed screen returns Pop the Menu is
\* the top again, as it was when it returned Push - its selection unchanged.
C17_PushThenPopRestoresMenu ==
    [][ /\ (change.kind = "None" =>
               /\ Len(states') = Len(states)
               /\ Beneath(states') = Beneath(states)
               /\ (Top.kind # "Game" /\ change'.kind # "Push" =>
                      UNCHANGED << field, active_piece, next_pieces, score, effect,
                                   ticker, last_input >>))
        /\ (change.kind = "Push" =>
               /\ Beneath(states') = states
               /\ states'[Len(states')] = change.screen)
        /\ (change.kind = "Pop" /\ Len(states) = 2 =>
               /\ states' = << states[1] >>
               /\ states'[1].kind = "Menu"
               /\ states'[1].selection = states[1].selection
               /\ ~should_close')
      ]_vars

\* The Scoreboard that the Menu pushed with its selection on 1 has returned
\* Pop: the Menu is the only screen again, as its confirming tick left it.
C17_Witness ==
    /\ Len(states) = 1
    /\ Top.kind = "Menu"
    /\ Top.selection = 1
    /\ Top.last_input.rot_right = "Pressed"
    /\ change.kind = "None"
    /\ ~should_close

\* The Game that the Menu pushed has run a tick and returned Pop: the Menu is
\* the only screen again with its selection on 0.
C17_BackFromGame ==
    /\ Len(states) = 1
    /\ Top.kind = "Menu"
    /\ Top.selection = 0
    /\ Top.ticker > 0
    /\ Top.last_input.rot_right = "Pressed"
    /\ change.kind = "None"

\* C19: main handles a Swap by replacing the top screen: the depth of the
\* stack is the same before and after and every screen beneath the top is
\* unchanged; the new top is the Scoreboard holding the score the Game hands
\* over, and the Menu lies directly beneath it.
C19_SwapReplacesTop ==
    [][ change.kind = "Swap" =>
            /\ Len(states') = Len(states)
            /\ Beneath(states') = Beneath(states)
            /\ Top.kind = "Game"
            /\ states'[Len(states')].kind = "Scores"
            /\ states'[Len(states')].inputting_score = change.inputting_score
            /\ states'[Len(states') - 1].kind = "Menu"
      ]_vars

\* A game that ended with a score of 800 has handed over to the Scoreboard,
\* which lies on the Menu with the score pending.
C19_Witness ==
    /\ Len(states) = 2
    /\ states[1] = MenuBeneath
    /\ states[2].kind = "Scores"
    /\ states[2].inputting_score = Some(800)
    /\ states[2].ticker = 0
    /\ change.kind = "None"

----------------------------------------------------------------------------
(* The Menu                                                                *)

\* The screen pushed for a confirmed selection.
Chosen(sel) == CASE sel = 0 -> "Game" [] sel = 1 -> "Scores" [] OTHER -> "none"

\* C20: the selection of the Menu is always 0, 1 or 2. On a tick of the Menu
\* a Pressed rotate key confirms, before up and down are looked at: the tick
\* returns Push(Game) for selection 0, Push(Scoreboard) for 1 and Quit for 2
\* and leaves the selection as it is. Otherwise a Pressed up key moves the
\* selection 0->2, 1->0, 2->1, a Pressed down key moves it 0->1, 1->2, 2->0,
\* a key that is Holding or Released moves nothing, and the tick returns None.
C20_MenuSelection ==
    [][ (Top.kind = "Menu" /\ change.kind = "None") =>
            LET before == Top.selection
                menu   == states'[Len(states')]
                inp    == menu.last_input
            IN  /\ before \in { 0, 1, 2 }
                /\ menu.selection \in { 0, 1, 2 }
                /\ IF inp.rot_left = "Pressed" \/ inp.rot_right = "Pressed"
                   THEN /\ menu.selection = before
                        /\ change'.kind = IF before = 2 THEN "Quit" ELSE "Push"
                        /\ (before # 2 => change'.screen.kind = Chosen(before))
                   ELSE /\ change'.kind = "None"
                        /\ menu.selection =
                              IF inp.up = "Pressed" THEN (before + 2) % 3
                              ELSE IF inp.down = "Pressed" THEN (before + 1) % 3
                              ELSE before
      ]_vars

\* With the selection on 1, up and a rotate key were Pressed on the same tick:
\* the tick confirmed the Scoreboard and did not move the selection.
C20_Witness ==
    /\ Len(states) = 1
    /\ Top.kind = "Menu"
    /\ Top.selection = 1
    /\ Top.last_input.up = "Pressed"
    /\ Top.last_input.rot_left = "Pressed"
    /\ change.kind = "Push"
    /\ change.screen.kind = "Scores"

\* An up press on the first entry has moved the selection to the last one,
\* and the confirmation of that entry has closed the window.
C20_Quit == should_close /\ Top.kind = "Menu" /\ Top.selection = 2

----------------------------------------------------------------------------
(* main's handling of a StateChange as a function of the stack and of the   *)
(* StateChange: SpecLoop applies it to stacks of GameState objects, any of  *)
(* which may return any StateChange                                         *)

\* The deepest stack that is tried.
MaxStack == 2

\* Screens that a stack may hold.
TestScreens ==
    { NewMenu, MenuScreen(2, DefaultInput, 7), GameScreen,
      NewScores(None, None), NewScores(None, Some(800)) }

\* The stacks of 1 to MaxStack screens.
TestStacks == UNION { [ 1..n -> TestScreens ] : n \in 1..MaxStack }

\* What the update of the top screen may have returned.
TestChanges ==
    { [ kind |-> "Quit", inputting_score |-> None ],
      [ kind |-> "Pop", inputting_score |-> None ],
      [ kind |-> "Swap", inputting_score |-> None ],
      [ kind |-> "Swap", inputting_score |-> Some(300) ],
      [ kind |-> "Push", inputting_score |-> None, screen |-> GameScreen ],
      [ kind |-> "Push", inputting_score |-> None, screen |-> NewScores(None, None) ] }

InitLoop ==
    /\ states \in TestStacks
    /\ change \in TestChanges
    /\ should_close = FALSE
    /\ file = None
    /\ field = NoGame.field
    /\ active_piece = NoGame.active_piece
    /\ next_pieces = NoGame.next_pieces
    /\ fall_ticks = NoGame.fall_ticks
    /\ fall_counter = NoGame.fall_counter
    /\ fall_accel_counter = NoGame.fall_accel_counter
    /\ ticker = NoGame.ticker
    /\ score = NoGame.score
    /\ rotated = FALSE
    /\ last_input = DefaultInput
    /\ effect = NoEffect
    /\ last_tick = Idle("none")
    /\ effect_set_at = 0
    /\ play_ticks = 0
    /\ call = None

\* The next iteration of `while !window.should_close()` on an empty stack:
\* `states.last_mut().unwrap()` panics.
MainUnwrapNone ==
    /\ ~should_close
    /\ states = << >>
    /\ change.kind = "None"
    /\ change' = [ kind |-> "Panic", inputting_score |-> None ]
    /\ UNCHANGED << field, active_piece, next_pieces, fall_ticks, fall_counter,
                    fall_accel_counter, ticker, score, rotated, last_input,
                    effect, last_tick, effect_set_at, play_ticks, call, app_vars >>

NextLoop ==
    \/ MainQuit
    \/ MainPush
    \/ MainPop
    \/ MainSwap
    \/ MainUnwrapNone

SpecLoop == InitLoop /\ [][NextLoop]_vars

PopRemovesTop ==
    [][ change.kind = "Pop" => (states' = Popped(states) /\ ~should_close') ]_vars

----------------------------------------------------------------------------
(* The Scoreboard on its own: SpecScores starts a TetrisScores above the    *)
(* Menu with one of several score files and pending scores, and runs its    *)
(* ticks until it returns Pop                                               *)

\* The most entries of a score file that is tried.
MaxEntries == 11

\* The table with the scores 100, 200, .., 100 * n, in that order.
Ladder(n) == [ i \in 1..n |-> << ANA, 100 * i >> ]

\* The score files a Scoreboard may find: none, damaged ones (too short for
\* the header, and one byte too long), and well-formed ones with 0 to
\* MaxEntries entries in several orders.
ScoreFiles ==
    { None,
      Some(<< 116, 101, 116, 114, 105, 115 >>),
      Some(Unwrap(FileOf(<< << PLR, 300 >> >>)) \o << 0 >>),
      FileOf(<< >>),
      FileOf(<< << PLR, 300 >>, << ANA, 1200 >> >>),
      FileOf(<< << ANA, 700 >>, << PLR, 700 >>, << ANA, 200 >> >>),
      FileOf(Ladder(MaxEntries - 2)),
      FileOf(Reverse(Ladder(MaxEntries - 1))),
      FileOf(Ladder(MaxEntries)) }

\* The scores a Game may hand over: none, or a score above 0.
PendingScores == { None, Some(50), Some(550), Some(700), Some(2000) }

InitScores ==
    /\ file \in ScoreFiles
    /\ \E pending \in PendingScores :
          states = << IF pending = None
                      THEN MenuScreen(1, [DefaultInput EXCEPT !.rot_left = "Pressed"], 4)
                      ELSE MenuBeneath,
                      NewScores(file, pending) >>
    /\ should_close = FALSE
    /\ field = NoGame.field
    /\ active_piece = NoGame.active_piece
    /\ next_pieces = NoGame.next_pieces
    /\ fall_ticks = NoGame.fall_ticks
    /\ fall_counter = NoGame.fall_counter
    /\ fall_accel_counter = NoGame.fall_accel_counter
    /\ ticker = NoGame.ticker
    /\ score = NoGame.score
    /\ rotated = FALSE
    /\ last_input = DefaultInput
    /\ effect = NoEffect
    /\ change = NoChange
    /\ last_tick = Idle("none")
    /\ effect_set_at = 0
    /\ play_ticks = 0
    /\ call = None

NextScores ==
    \/ ScoresEnter
    \/ ScoresShow
    \/ MainPop

SpecScores == InitScores /\ [][NextScores]_vars

\* How often the entry `e` occurs in the table `t`.
Count(t, e) == Cardinality({ i \in DOMAIN t : t[i] = e })

\* The tables `a` and `b` hold the same entries, each as often.
SameEntries(a, b) ==
    /\ Len(a) = Len(b)
    /\ \A e \in Range(a) \cup Range(b) : Count(a, e) = Count(b, e)

\* `sel` holds the `n` highest-scoring entries of `all` (all of them when
\* there are fewer): it takes its entries from `all`, and no entry left out
\* has a higher score than an entry taken.
HighestOf(sel, all, n) ==
    /\ Len(sel) = Min(n, Len(all))
    /\ \A e \in Range(sel) : Count(sel, e) <= Count(all, e)
    /\ \A e \in Range(all) :
          Count(sel, e) < Count(all, e) =>
              \A i \in DOMAIN sel : sel[i][2] >= e[2]

\* A tick of the Scoreboard that processes its pending score.
Processing ==
    /\ Running("Scores")
    /\ Top.inputting_score # None
    /\ Len(states') = Len(states)

\* The table of the Scoreboard after the step.
TableAfter == states'[Len(states')].scores

\* C21: after the Scoreboard has processed a pending score s > 0 against a
\* table T, the table holds at most 10 entries, and they are the 10
\* highest-scoring entries of T together with the new entry ("PLR", s) (all
\* of them when these are fewer than 10). The code sorts the table in
\* ascending order before it looks for the first entry with a lower score and
\* drops the last entry, so it drops the highest score of a full table, and
\* it appends a score that is not above any entry without dropping anything.
C21_KeepsHighestTen ==
    [][ Processing =>
            /\ Len(TableAfter) <= MAX_SCORES
            /\ HighestOf(TableAfter,
                         Append(Top.scores, << PLR, Unwrap(Top.inputting_score) >>),
                         MAX_SCORES)
      ]_vars

\* What the code does with a pending score: the new entry is always in the
\* table afterwards; a table of fewer than 10 entries keeps all its entries;
\* a table of 10 entries or more loses its highest entry when some entry
\* has a lower score than the new one, and loses nothing when none has.
EnterDropsHighest ==
    [][ Processing =>
            LET T     == Top.scores
                new   == << PLR, Unwrap(Top.inputting_score) >>
                lower == \E i \in DOMAIN T : T[i][2] < new[2]
                top   == CHOOSE e \in Range(T) : \A i \in DOMAIN T : T[i][2] <= e[2]
            IN  /\ Count(TableAfter, new) = Count(T, new) + 1
                /\ (Len(T) < MAX_SCORES \/ ~lower) =>
                       SameEntries(TableAfter, Append(T, new))
                /\ (Len(T) >= MAX_SCORES /\ lower) =>
                       /\ Len(TableAfter) = Len(T)
                       /\ \E i \in DOMAIN T :
                             /\ T[i][2] = top[2]
                             /\ SameEntries(Append(TableAfter, T[i]), Append(T, new))
      ]_vars

\* The scores of the table never rise from one entry to the next.
Descending(t) == \A i \in 1..(Len(t) - 1) : t[i][2] >= t[i + 1][2]

\* The scores of the table never fall from one entry to the next.
Ascending(t) == \A i \in 1..(Len(t) - 1) : t[i][2] <= t[i + 1][2]

\* C22: the table that the Scoreboard holds and displays is sorted in
\* descending order of score at all times, after loading and after a pending
\* score has been entered. The code reverses the table after the sort only
\* when it loads it: the sort that follows the insertion leaves the table in
\* ascending order, and it is displayed in that order.
C22_TableDescending ==
    \A i \in DOMAIN states :
        states[i].kind = "Scores" => Descending(states[i].scores)

\* What the code does: the tick that enters a pending score leaves the table
\* in ascending order, and no other tick changes the table.
TableOrder ==
    [][ /\ Processing => Ascending(TableAfter)
        /\ (Running("Scores") /\ Top.inputting_score = None
                /\ Len(states') = Len(states)) => TableAfter = Top.scores
      ]_vars

----------------------------------------------------------------------------
(* save_scores and load_scores as functions: SpecFile saves tables of       *)
(* several sizes and orders and loads what was written, and loads files     *)
(* that are damaged                                                         *)

\* The engine variables and the stack while only the score file is used.
NoScreens ==
    /\ field = NoGame.field
    /\ active_piece = NoGame.active_piece
    /\ next_pieces = NoGame.next_pieces
    /\ fall_ticks = NoGame.fall_ticks
    /\ fall_counter = NoGame.fall_counter
    /\ fall_accel_counter = NoGame.fall_accel_counter
    /\ ticker = NoGame.ticker
    /\ score = NoGame.score
    /\ rotated = FALSE
    /\ last_input = DefaultInput
    /\ effect = NoEffect
    /\ change = NoChange
    /\ last_tick = Idle("none")
    /\ effect_set_at = 0
    /\ play_ticks = 0
    /\ states = << NewMenu >>
    /\ should_close = FALSE

\* The name "Été": two characters of two bytes each and one of one byte.
ETE == << 195, 137, 116, 195, 169 >>

\* A name of `n` bytes, all "A".
LongName(n) == [ i \in 1..n |-> 65 ]

\* Entries with names of 3, 5 and u8::MAX bytes, two of them with the same
\* score.
TestEntries ==
    { << PLR, 300 >>, << ANA, 1200 >>, << ETE, 300 >>, << LongName(U8_MAX), 70000 >> }

\* Ladder(n) with its first two entries exchanged and its last entry moved to
\* the front.
Shuffled(n) ==
    << Ladder(n)[n], Ladder(n)[2], Ladder(n)[1] >> \o SubSeq(Ladder(n), 3, n - 1)

\* The tables that are saved: every table of up to 2 of the test entries,
\* tables of MaxEntries - 2 to MaxEntries + 1 entries ascending, descending
\* and in neither order, and names longer than u8::MAX bytes (the second
\* one is cut inside a character).
TestTables ==
    UNION { [ 1..n -> TestEntries ] : n \in 0..2 }
    \cup { Ladder(MaxEntries - 2), Ladder(MaxEntries - 1),
           Reverse(Ladder(MaxEntries - 1)), Shuffled(MaxEntries - 1),
           Ladder(MaxEntries), Reverse(Ladder(MaxEntries)), Shuffled(MaxEntries),
           Ladder(MaxEntries + 1),
           Append(Ladder(MaxEntries - 2), << LongName(U8_MAX), 450 >>),
           << << LongName(U8_MAX + 1), 450 >> >>,
           << << LongName(U8_MAX - 1) \o << 195, 169 >>, 450 >> >> }

\* A well-formed file of three entries, not in the order of their scores.
GoodFile ==
    Unwrap(FileOf(<< << ANA, 700 >>, << PLR, 300 >>, << ETE, 1200 >> >>))

\* The files that are loaded without having been saved: none, the good one,
\* every truncation of it, the good one with one more byte, with another
\* header (cut after the header too), with a count of entries that is one
\* too low or too high, and one whose only name is not UTF-8.
TestFiles ==
    { None, Some(GoodFile), Some(GoodFile \o << 0 >>),
      Some([GoodFile EXCEPT ![Len(MAGIC)] = 50]),
      Some([GoodFile EXCEPT ![1] = 84]),
      Some(SubSeq([GoodFile EXCEPT ![1] = 84], 1, Len(MAGIC))),
      Some([GoodFile EXCEPT ![Len(MAGIC) + 1] = @ - 1]),
      Some([GoodFile EXCEPT ![Len(MAGIC) + 1] = @ + 1]),
      FileOf(<< << << 80, 255, 82 >>, 300 >> >>) }
    \cup { Some(SubSeq(GoodFile, 1, n)) : n \in 0..(Len(GoodFile) - 1) }

InitFile ==
    /\ \/ /\ file = None
          /\ \E t \in TestTables :
                call = [ fn |-> "none", scores |-> t, ret |-> None, saved |-> FALSE ]
       \/ /\ file \in TestFiles
          /\ call = [ fn |-> "none", scores |-> << >>, ret |-> None, saved |-> FALSE ]
    /\ NoScreens

\* save_scores(call.scores), returning Ok or an error.
CallSave ==
    /\ call.fn = "none"
    /\ \/ /\ file' = Saved(call.scores)
          /\ call' = [call EXCEPT !.fn = "save_scores", !.ret = Some(Ok(<< >>)),
                                  !.saved = TRUE]
       \/ /\ file' \in SaveFailures(call.scores, file)
          /\ call' = [call EXCEPT !.fn = "save_scores", !.ret = Some(Err("Io"))]
    /\ UNCHANGED << engine_vars, states, should_close >>

\* load_scores()
CallLoad ==
    /\ call.fn \in { "none", "save_scores" }
    /\ call' = [call EXCEPT !.fn = "load_scores", !.ret = Some(load_scores(file))]
    /\ UNCHANGED << engine_vars, app_vars >>

NextFile ==
    \/ CallSave
    \/ CallLoad

SpecFile == InitFile /\ [][NextFile]_vars

\* load_scores has returned what a successful save_scores(call.scores) wrote.
Reloaded == call.fn = "load_scores" /\ call.saved

\* Every name of the table fits the length byte of an entry.
ShortNames(t) == \A i \in DOMAIN t : Len(t[i][1]) <= U8_MAX

\* The last `n` entries of the table (all of them when there are fewer).
LastOf(t, n) == SubSeq(t, Len(t) - Min(n, Len(t)) + 1, Len(t))

C23_LongName ==
    /\ Reloaded
    /\ call.scores = << << ETE, 300 >>, << LongName(U8_MAX), 70000 >> >>
    /\ Unwrap(call.ret) = Ok(<< << LongName(U8_MAX), 70000 >>, << ETE, 300 >> >>)

\* The Scoreboard on top of the stack still holds an unprocessed score.
Pending == states # << >> /\ Top.kind = "Scores" /\ Top.inputting_score # None

\* C24: a Scoreboard created with a pending score enters it and saves the
\* table on its first logic tick, before the escape key is examined: while
\* the score is pending the screen has ticked 0 times and has not returned
\* Pop; the tick that finds it pending enters it, writes the file (or fails
\* to), clears it, and only then returns Pop if escape is Pressed; and a tick
\* that finds no pending score changes neither the table nor the file, so
\* the score is entered and saved exactly once.
C24_EnteredOnceOnFirstTick ==
    [][ /\ Pending => (Top.ticker = 0 /\ change.kind = "None")
        /\ (Pending /\ Len(states') = Len(states)) =>
              /\ states'[Len(states')].ticker = 1
              /\ states'[Len(states')].inputting_score = None
              /\ TableAfter = EnterScore(Top.scores, Unwrap(Top.inputting_score))
              /\ Count(TableAfter, << PLR, Unwrap(Top.inputting_score) >>)
                     = Count(Top.scores, << PLR, Unwrap(Top.inputting_score) >>) + 1
              /\ file' \in { Saved(TableAfter) } \cup SaveFailures(TableAfter, file)
              /\ change'.kind = (IF states'[Len(states')].last_input.escape = "Pressed"
                                 THEN "Pop" ELSE "None")
        /\ (Running("Scores") /\ ~Pending /\ Len(states') = Len(states)) =>
              /\ TableAfter = Top.scores
              /\ states'[Len(states')].inputting_score = None
              /\ file' = file
      ]_vars

\* Escape was down on the first tick of a Scoreboard that held the score 550
\* for the table 1200, 300: the screen has returned Pop, and the score is in
\* the table and in the file.
C24_Witness ==
    /\ change.kind = "Pop"
    /\ Top.kind = "Scores"
    /\ Top.ticker = 1
    /\ Top.inputting_score = None
    /\ Top.scores = << << PLR, 300 >>, << PLR, 550 >>, << ANA, 1200 >> >>
    /\ file = Saved(Top.scores)
    /\ load_scores(file) = Ok(Reverse(Top.scores))

\* On a later tick the score is still in the table once and nothing is
\* pending.
C24_LaterTick ==
    /\ Top.kind = "Scores"
    /\ Top.ticker = MaxScoresTicks
    /\ Top.inputting_score = None
    /\ Count(Top.scores, << PLR, 550 >>) = 1
    /\ Len(Top.scores) = 3

\* The entries of the good file, in the order of the file.
GoodEntries == << << ANA, 700 >>, << PLR, 300 >>, << ETE, 1200 >> >>

\* Lists of entries that the loaded files declare: those of the good file,
\* one entry fewer and one more, one whose name is not UTF-8, and what
\* save_scores writes for each of the test tables.
EntryLists ==
    { GoodEntries, SubSeq(GoodEntries, 1, 2), Append(GoodEntries, << PLR, 1 >>),
      << << << 80, 255, 82 >>, 300 >> >> }
    \cup { Reverse(LastOf(t, MAX_SCORES)) : t \in { u \in TestTables : ShortNames(u) } }

\* `a` is the beginning of `b` and shorter.
StrictPrefix(a, b) == Len(a) < Len(b) /\ a = SubSeq(b, 1, Len(a))

\* The entries as load_scores pushes them: the names through
\* String::from_utf8_lossy.
AsRead(entries) ==
    [ i \in DOMAIN entries |-> << from_utf8_lossy(entries[i][1]), entries[i][2] >> ]

\* load_scores has returned for a file that exists.
Loaded == call.fn = "load_scores" /\ file # None

\* C25: load_scores returns an InvalidData error (and no entries) whenever
\* the first 8 bytes are not "tet.rs 1" or bytes remain after the declared
\* entries; it fails (with UnexpectedEof) when the file ends before the
\* header, the count or the declared entries are complete; and when the file
\* is the header, the count and exactly the declared entries it returns those
\* entries sorted descending by score, whatever their order in the file.
C25_LoadErrors ==
    Loaded =>
        LET contents == Unwrap(file)
            ret      == Unwrap(call.ret)
        IN  /\ (Len(contents) >= Len(MAGIC) /\ SubSeq(contents, 1, Len(MAGIC)) # MAGIC)
                   => ret = Err("InvalidData")
            /\ Len(contents) < Len(MAGIC) => ret = Err("UnexpectedEof")
            /\ \A e \in EntryLists :
                  /\ StrictPrefix(Unwrap(FileOf(e)), contents) => ret = Err("InvalidData")
                  /\ (StrictPrefix(contents, Unwrap(FileOf(e))) /\ Len(contents) >= Len(MAGIC))
                         => ret = Err("UnexpectedEof")
                  /\ contents = Unwrap(FileOf(e)) =>
                         /\ ret.ok
                         /\ Descending(ret.value)
                         /\ SameEntries(ret.value, AsRead(e))
            /\ ret.ok => Descending(ret.value)

\* The good file with one more byte has been refused as InvalidData.
C25_Witness ==
    /\ Loaded
    /\ Unwrap(file) = GoodFile \o << 0 >>
    /\ Unwrap(call.ret) = Err("InvalidData")

\* A file that starts with "tet.rs 2" has been refused as InvalidData.
C25_OtherHeader ==
    /\ Loaded
    /\ Len(Unwrap(file)) = Len(GoodFile)
    /\ SubSeq(Unwrap(file), 1, Len(MAGIC)) = << 116, 101, 116, 46, 114, 115, 32, 50 >>
    /\ Unwrap(call.ret) = Err("InvalidData")

\* The good file cut inside the score of its last entry has been refused.
C25_CutShort ==
    /\ Loaded
    /\ StrictPrefix(Unwrap(file), GoodFile)
    /\ Len(Unwrap(file)) = Len(GoodFile) - 3
    /\ Unwrap(call.ret) = Err("UnexpectedEof")

\* The good file, whose entries are in the order 700, 300, 1200, has been
\* loaded: highest score first.
C25_Sorted ==
    /\ Loaded
    /\ Unwrap(file) = GoodFile
    /\ Unwrap(call.ret) = Ok(<< << ETE, 1200 >>, << ANA, 700 >>, << PLR, 300 >> >>)

\* A name that is not UTF-8 has been loaded with U+FFFD in the place of the
\* offending byte.
C25_LossyName ==
    /\ Loaded
    /\ Unwrap(call.ret) = Ok(<< << << 80, 239, 191, 189, 82 >>, 300 >> >>)

\* C26: if loading the score file fails, the Scoreboard starts with an empty
\* table and runs; and whatever save_scores leaves of the file on the tick
\* that enters a pending score (it may fail), the table holds the new entry
\* afterwards, the pending score is cleared, and the screen goes on: the tick
\* returns None, or Pop when escape is Pressed, and the window stays open.
C26_FileErrorsIgnored ==
    [][ /\ (Running("Scores") /\ Top.ticker = 0 /\ ~load_scores(file).ok) =>
              Top.scores = << >>
        /\ (Pending /\ Len(states') = Len(states)) =>
              /\ \E i \in DOMAIN TableAfter :
                    TableAfter[i] = << PLR, Unwrap(Top.inputting_score) >>
              /\ states'[Len(states')].inputting_score = None
              /\ states'[Len(states')].kind = "Scores"
              /\ change'.kind = (IF states'[Len(states')].last_input.escape = "Pressed"
                                 THEN "Pop" ELSE "None")
              /\ ~should_close'
      ]_vars

\* No table could be loaded, and the save of the entered score has failed
\* after the header was written: the table holds the new entry alone,
\* nothing is pending, and the file is unreadable.
C26_Witness ==
    /\ Top.kind = "Scores"
    /\ Top.ticker = 1
    /\ Top.scores = << << PLR, 550 >> >>
    /\ Top.inputting_score = None
    /\ file = Some(MAGIC)
    /\ ~load_scores(file).ok
    /\ change.kind = "None"
    /\ ~should_close

\* A Scoreboard has started with an empty table because there is no file,
\* and has ticked without a pending score.
C26_NoFile ==
    /\ Top.kind = "Scores"
    /\ Top.ticker = 1
    /\ Top.scores = << >>
    /\ file = None

\* The save has failed with the old file left as it was: the table holds the
\* entry that the file lacks.
C26_OldFileKept ==
    /\ Top.kind = "Scores"
    /\ Top.ticker = MaxScoresTicks
    /\ Top.scores = << << PLR, 300 >>, << ANA, 1200 >>, << PLR, 2000 >> >>
    /\ file = FileOf(<< << PLR, 300 >>, << ANA, 1200 >> >>)

----------------------------------------------------------------------------
(* Piece::filled_at as a function: SpecTurn calls it for every shape, every *)
(* rotation and every local cell                                            *)

\* The local cells of a piece, 0..3 x 0..3.
LocalCells == (0..3) \X (0..3)

InitTurn ==
    /\ \E i \in 0..(Len(PIECES) - 1) : \E r \in 0..3 : \E c \in LocalCells :
          call = [ fn |-> "filled_at", piece |-> [NewPiece(i) EXCEPT !.rot = r],
                   x |-> c[1], y |-> c[2], ret |-> None ]
    /\ file = None
    /\ NoScreens

CallFilledAt ==
    /\ call.ret = None
    /\ call' = [call EXCEPT !.ret = Some(filled_at(call.piece, call.x, call.y))]
    /\ UNCHANGED << engine_vars, app_vars >>

NextTurn == CallFilledAt

SpecTurn == InitTurn /\ [][NextTurn]_vars

\* The quarter turn: the index that rotation 1 reads for the local cell
\* whose row-major index is `i`.
QuarterTurn(i) == RotIndex(1, i % 4, i \div 4)

\* The quarter turn applied `k` times.
RECURSIVE Turns(_, _)
Turns(k, i) == IF k = 0 THEN i ELSE QuarterTurn(Turns(k - 1, i))

\* The filled local cells of a piece.
Filled(piece) == { c \in LocalCells : filled_at(piece, c[1], c[2]) }

\* C27: for each shape and all local cells, the index formula of every
\* rotation is a permutation of 0..15; the formula of rotation k is the
\* k-fold composition of the quarter turn of rotation 1 (rotation 2 being
\* 15 - (x + 4y)); four quarter turns give back the index, so the bitmap
\* turned four times is the original one; the bitmap of each rotation is the
\* quarter turn of the one before; and every rotation of every shape has
\* exactly 4 filled cells. filled_at returns the cell of the bitmap that the
\* composition names.
C27_RotationsCompose ==
    LET p == call.piece
        i == call.x + 4 * call.y
    IN  /\ { RotIndex(p.rot, c[1], c[2]) : c \in LocalCells } = 0..15
        /\ RotIndex(p.rot, call.x, call.y) = Turns(p.rot, i)
        /\ RotIndex(2, call.x, call.y) = 15 - i
        /\ Turns(4, i) = i
        /\ filled_at([p EXCEPT !.rot = (p.rot + 1) % 4], call.x, call.y)
               = filled_at(p, QuarterTurn(i) % 4, QuarterTurn(i) \div 4)
        /\ Cardinality(Filled(p)) = 4
        /\ call.ret # None =>
               Unwrap(call.ret) = (PIECES[p.shape + 1][Turns(p.rot, i) + 1] = "#")

\* The bar in rotation 3 has been asked for its local cell (3, 2) and it is
\* filled: the bar, upright in column 2 of its bitmap, lies in row 2.
C27_Witness ==
    /\ call.fn = "filled_at"
    /\ call.piece.shape = 1
    /\ call.piece.rot = 3
    /\ call.x = 3
    /\ call.y = 2
    /\ call.ret = Some(TRUE)
    /\ Filled(call.piece) = { << 0, 2 >>, << 1, 2 >>, << 2, 2 >>, << 3, 2 >> }

----------------------------------------------------------------------------
(* The freeze as a function of the piece and the field: SpecFreeze applies  *)
(* add_piece and the line-clear scan to pieces placed on and around the     *)
(* board                                                                    *)

\* Row 19 full, rows 17 and 18 full up to column 7, and row 5 full.
FieldFullRow ==
    [ o \in 0..(FieldLen - 1) |->
        IF o \div FIELD_WIDTH = 19 THEN "Red"
        ELSE IF o \div FIELD_WIDTH \in { 17, 18 } /\ o % FIELD_WIDTH < 8 THEN "Blue"
        ELSE IF o \div FIELD_WIDTH = 5 THEN "Green"
        ELSE Empty ]

FreezeFields == { EmptyField, FieldFour, FieldFullRow }

InitFreeze ==
    /\ \E p \in TestPieces : \E f \in FreezeFields :
          call = [ fn |-> "freeze", piece |-> p, field |-> f,
                   frozen |-> None, deletable |-> None ]
    /\ file = None
    /\ NoScreens

\* The freeze of TetrisMain::update: add_piece, then the scan of the rows
\* piece.y .. piece.y + 3 of the field it has written.
CallFreeze ==
    /\ call.frozen = None
    /\ call' = [call EXCEPT
                  !.frozen = Some(add_piece(call.piece, call.field)),
                  !.deletable = Some(Deletable(call.piece,
                                               add_piece(call.piece, call.field)))]
    /\ UNCHANGED << engine_vars, app_vars >>

NextFreeze == CallFreeze

SpecFreeze == InitFreeze /\ [][NextFreeze]_vars

\* C28: after the freeze of a piece at row position y, the rows collected
\* are exactly the rows r with y <= r < y + 4 and 0 <= r < 20 of which all 10
\* cells are Full in the field the piece was written into, in ascending
\* order: no row outside the window is collected, and a full row of the
\* window is collected whether or not the piece wrote a cell into it.
C28_ScanWindow ==
    call.deletable # None =>
        LET d == Unwrap(call.deletable)
        IN  /\ Range(d) = { r \in FullRows(Unwrap(call.frozen)) :
                                call.piece.y <= r /\ r < call.piece.y + 4 }
            /\ \A i \in 1..(Len(d) - 1) : d[i] < d[i + 1]

\* A square has frozen in columns 8 and 9 of rows 17 and 18, above the full
\* row 19 and far below the full row 5: rows 17, 18 and 19 are collected,
\* row 19 without a cell of the piece in it, and row 5 is not.
C28_Witness ==
    /\ call.fn = "freeze"
    /\ call.field = FieldFullRow
    /\ call.piece = [NewPiece(0) EXCEPT !.x = 7, !.y = 16]
    /\ piece_fits(call.piece, call.field)
    /\ call.deletable = Some(<< 17, 18, 19 >>)
    /\ FullRows(Unwrap(call.frozen)) = { 5, 17, 18, 19 }
    /\ \A c \in Cells(call.piece) : c[2] # 19

\* A square lies two rows above the board: the rows -2 and -1 of its window
\* are passed over and nothing is collected.
C28_AboveBoard ==
    /\ call.fn = "freeze"
    /\ call.field = FieldFullRow
    /\ call.piece = [NewPiece(0) EXCEPT !.y = -2]
    /\ call.deletable = Some(<< >>)

\* A bar completes the rows 16 to 19 and the window ends with the board.
C28_FourRows ==
    /\ call.fn = "freeze"
    /\ call.field = FieldFour
    /\ call.piece = [NewPiece(1) EXCEPT !.x = 7, !.y = 16]
    /\ call.deletable = Some(<< 16, 17, 18, 19 >>)

WritesCellsInColumns ==
    call.frozen # None =>
        /\ \A o \in 0..(FieldLen - 1) :
              Unwrap(call.frozen)[o] =
                  IF \E c \in Cells(call.piece) : c[1] + c[2] * FIELD_WIDTH = o
                  THEN call.piece.color
                  ELSE call.field[o]
        /\ (\A c \in Cells(call.piece) : c[1] >= 0 /\ c[1] < FIELD_WIDTH) =>
              Unwrap(call.frozen) = Stamped(call.piece, call.field)

\* A square at x = 8, y = 3 fills the columns 9 and 10 of rows 4 and 5: the
\* cells of column 10 have been written to column 0 of rows 5 and 6.
WrapsIntoNextRow ==
    /\ call.fn = "freeze"
    /\ call.field = EmptyField
    /\ call.piece = [NewPiece(0) EXCEPT !.x = 8, !.y = 3]
    /\ call.frozen # None
    /\ Unwrap(call.frozen)[0 + 5 * FIELD_WIDTH] = "Red"
    /\ Unwrap(call.frozen)[0 + 6 * FIELD_WIDTH] = "Red"
    /\ Unwrap(call.frozen)[9 + 4 * FIELD_WIDTH] = "Red"

----------------------------------------------------------------------------
(* The repeat of a held key                                                *)

\* The states of a key.
KeyStates == { "Released", "Pressed", "Holding" }

\* Two ticks in a row have reached the piece logic.
TwoPlayTicks == last_tick.branch = "play" /\ last_tick'.branch = "play"

\* C30: was_pressed(state, ticker) is true exactly when the state is Pressed,
\* or it is Holding and the ticker is even. So in the Game a key triggers on
\* the tick of its press edge and, while it is held, on exactly the
\* even-numbered ticks: the move to the right is attempted, the piece is made
\* to fall and the game is left on these ticks and, the fall counter apart,
\* on no others; of two ticks in a row on which a key is Holding exactly one
\* triggers; and two ticks in a row trigger only when the first is the press
\* edge, on an odd tick.
C30_HeldKeyRepeats ==
    [][ ticker' = ticker + 1 =>
          /\ \A s \in KeyStates :
                was_pressed(s, ticker') = (s = "Pressed" \/ (s = "Holding" /\ ticker' % 2 = 0))
          /\ (change'.kind = "Pop")
                = (last_input'.escape = "Pressed"
                      \/ (last_input'.escape = "Holding" /\ ticker' % 2 = 0))
          /\ last_tick'.branch = "play" =>
                /\ (last_tick'.move_attempt = "right")
                      = (last_input'.right = "Pressed"
                            \/ (last_input'.right = "Holding" /\ ticker' % 2 = 0))
                /\ (last_tick'.move_attempt = "left")
                      = (/\ last_tick'.move_attempt # "right"
                         /\ (last_input'.left = "Pressed"
                                \/ (last_input'.left = "Holding" /\ ticker' % 2 = 0)))
                /\ last_tick'.should_fall
                      = (\/ fall_counter - 1 = 0
                         \/ last_input'.down = "Pressed"
                         \/ (last_input'.down = "Holding" /\ ticker' % 2 = 0))
          /\ (TwoPlayTicks /\ last_input.right = "Holding" /\ last_input'.right = "Holding") =>
                (last_tick.move_attempt = "right") # (last_tick'.move_attempt = "right")
          /\ (TwoPlayTicks /\ last_tick.move_attempt = "right"
                  /\ last_tick'.move_attempt = "right" /\ last_input'.right = "Holding") =>
                (last_input.right = "Pressed" /\ ticker % 2 = 1)
      ]_vars

\* The right key has been down since the first tick of a new game: the
\* square moved on tick 1 (the press edge) and on tick 2 (Holding, even) and
\* not on tick 3 (Holding, odd).
C30_Witness ==
    /\ ticker = 3
    /\ last_input.right = "Holding"
    /\ last_tick.branch = "play"
    /\ last_tick.move_attempt = "none"
    /\ active_piece # None
    /\ Unwrap(active_piece).x = NewPiece(0).x + 2

\* The down key has been down since the first tick of a new game: the piece
\* fell on ticks 1 and 2 and does not fall on tick 3.
C30_DownHeld ==
    /\ ticker = 3
    /\ last_input.down = "Holding"
    /\ last_tick.branch = "play"
    /\ ~last_tick.should_fall
    /\ Unwrap(active_piece).y = 2

\* The left key went down on tick 2 and is held on tick 3: the piece moved
\* once, on the press edge, and waits for tick 4.
C30_PressedOnEvenTick ==
    /\ ticker = 3
    /\ last_input.left = "Holding"
    /\ last_tick.branch = "play"
    /\ last_tick.move_attempt = "none"
    /\ Unwrap(active_piece).x = NewPiece(0).x - 1

----------------------------------------------------------------------------
(* The order of the entries in the file                                     *)

\* save_scores(call.scores) has returned Ok.
SavedOk == call.fn = "save_scores" /\ call.saved

\* The byte that follows the header of the file.
CountByte == Unwrap(file)[Len(MAGIC) + 1]

\* The entries of the file in the order in which they stand in it, read as
\* load_scores reads them.
Written == read_entries(Unwrap(file), Len(MAGIC) + 2, CountByte, << >>)

\* The file starts with the header, the count byte is min(len, 10), and
\* exactly that many entries follow it up to the end of the file.
CountAndEntries ==
    /\ SubSeq(Unwrap(file), 1, Len(MAGIC)) = MAGIC
    /\ CountByte = Min(Len(call.scores), MAX_SCORES)
    /\ Written.ok
    /\ Len(Written.value.scores) = CountByte
    /\ Written.value.pos - 1 = Len(Unwrap(file))

\* C31 as stated: save_scores writes the entries to the file in ascending
\* order of score, with entry_count = min(number of entries, 10) and exactly
\* entry_count entries following the count byte. The table is sorted
\* ascending when it is saved, as TetrisScores::update passes it.
C31_WrittenAscending ==
    (SavedOk /\ Ascending(call.scores)) =>
        /\ CountAndEntries
        /\ Ascending(Written.value.scores)

\* C31: save_scores writes entry_count = min(number of entries, 10) and
\* exactly entry_count entries after the count byte, and they are the last
\* entry_count entries of the table in reverse order (names of at most 255
\* bytes): for the table sorted ascending that TetrisScores::update passes,
\* the highest-scoring entries in descending order of score.
C31_WrittenReversed ==
    SavedOk =>
        /\ CountAndEntries
        /\ ShortNames(call.scores) =>
               Written.value.scores = Reverse(LastOf(call.scores, MAX_SCORES))
        /\ (ShortNames(call.scores) /\ Ascending(call.scores)) =>
               /\ Descending(Written.value.scores)
               /\ HighestOf(Written.value.scores, call.scores, MAX_SCORES)

\* An ascending table of 11 entries with 11 different scores has been saved:
\* the count byte is 10 and the file starts with the highest entry and ends
\* with the second lowest.
C31_Witness ==
    /\ SavedOk
    /\ call.scores = Ladder(MAX_SCORES + 1)
    /\ CountByte = MAX_SCORES
    /\ Written.value.scores[1] = Ladder(MAX_SCORES + 1)[MAX_SCORES + 1]
    /\ Written.value.scores[MAX_SCORES] = Ladder(MAX_SCORES + 1)[2]
    /\ ~Ascending(Written.value.scores)

\* A table of two entries has been saved: two entries follow the count byte.
C31_TwoEntries ==
    /\ SavedOk
    /\ call.scores = << << PLR, 300 >>, << ANA, 1200 >> >>
    /\ file = FileOf(<< << ANA, 1200 >>, << PLR, 300 >> >>)

----------------------------------------------------------------------------
(* The time accumulator of the three screens: SpecAccum feeds frames of     *)
(* every length to the tick loop of one screen. Time is counted in units of *)
(* FRAME_TIME / UnitsPerTick, and every tick of the loop returns no change. *)

\* The units of time in FRAME_TIME, the time of one logic tick.
UnitsPerTick == 3

\* The longest frame and the longest run, in units.
MaxFrame == 7
MaxElapsed == 12

\* The condition of the tick loop: `self.accum >= FRAME_TIME` in the Menu,
\* `self.accum > FRAME_TIME` in the Game and in the Scoreboard.
LoopCondition(kind, accum) ==
    IF kind = "Menu" THEN accum >= UnitsPerTick ELSE accum > UnitsPerTick

\* `while <condition> { self.accum -= FRAME_TIME; self.ticker += 1; .. }`:
\* the accumulator and the ticker when the loop is left.
RECURSIVE TickLoop(_, _, _)
TickLoop(kind, accum, ticks) ==
    IF LoopCondition(kind, accum)
    THEN TickLoop(kind, accum - UnitsPerTick, ticks + 1)
    ELSE [ accum |-> accum, ticker |-> ticks ]

InitAccum ==
    /\ \E kind \in { "Menu", "Game", "Scores" } :
          call = [ fn |-> "none", kind |-> kind, accum |-> 0, ticker |-> 0,
                   elapsed |-> 0, dt |-> 0, ran |-> 0 ]
    /\ file = None
    /\ NoScreens

\* update(window, dt) of the screen: `self.accum += dt` and the tick loop.
\* `elapsed` is the time of all frames so far and `ran` the ticks of this one.
CallUpdate ==
    /\ \E dt \in 0..MaxFrame :
          /\ call.elapsed + dt <= MaxElapsed
          /\ LET left == TickLoop(call.kind, call.accum + dt, call.ticker)
             IN  call' = [call EXCEPT !.fn = "update", !.accum = left.accum,
                                      !.ticker = left.ticker,
                                      !.elapsed = @ + dt, !.dt = dt,
                                      !.ran = left.ticker - call.ticker]
    /\ UNCHANGED << engine_vars, app_vars >>

NextAccum == CallUpdate

SpecAccum == InitAccum /\ [][NextAccum]_vars

\* C32: every screen's update adds the frame's elapsed time to its
\* accumulator and runs one logic tick for every whole tick_time the
\* accumulator holds (loop condition accumulator >= tick_time), carrying the
\* remainder to the next frame: the ticks run are the whole tick times of
\* the total elapsed time, however it was split into frames, and what is
\* left in the accumulator is less than one tick time. The Game and the
\* Scoreboard loop while the accumulator is greater than tick_time, and run
\* no tick on the frame that brings it to one tick time exactly.
C32_TickPerWholeTickTime ==
    /\ call.ticker = call.elapsed \div UnitsPerTick
    /\ call.accum = call.elapsed % UnitsPerTick

\* What the code does: the number of ticks depends on the total elapsed time
\* only on every screen; the Menu has run the whole tick times of it, the
\* Game and the Scoreboard the whole tick times of it less one unit (they
\* are one tick behind whenever the time is a multiple of the tick time),
\* and they keep between one unit and a whole tick time in the accumulator.
TicksOfElapsedTime ==
    /\ call.accum + UnitsPerTick * call.ticker = call.elapsed
    /\ call.kind = "Menu" =>
          /\ call.ticker = call.elapsed \div UnitsPerTick
          /\ call.accum < UnitsPerTick
    /\ (call.kind # "Menu" /\ call.elapsed > 0) =>
          /\ call.ticker = (call.elapsed - 1) \div UnitsPerTick
          /\ call.accum \in 1..UnitsPerTick

\* A frame shorter than a tick in which no tick ran, on a screen that had
\* ticked before.
FrameWithoutTick ==
    /\ call.fn = "update"
    /\ call.dt \in 1..(UnitsPerTick - 1)
    /\ call.ticker > 0
    /\ call.ran = 0

\* A frame in which the Game ran two ticks.
FrameWithTwoTicks == call.kind = "Game" /\ call.ran = 2

\* The Game after one frame of exactly one tick time: no tick has run.
GameOneTickBehind ==
    /\ call.kind = "Game"
    /\ call.fn = "update"
    /\ call.elapsed = UnitsPerTick
    /\ call.dt = UnitsPerTick
    /\ call.ticker = 0

----------------------------------------------------------------------------
(* Invariants of the game                                                   *)

\* The cells of the field that differ between two fields.
Changed(before, after) == { o \in 0..(FieldLen - 1) : before[o] # after[o] }

\* Every shape has 4 filled cells in each rotation; an active piece fits the
\* field; and the piece a tick has frozen is in the field in its colour.
ActivePieceFits ==
    /\ \A shape \in 0..(Len(PIECES) - 1) : \A rot \in 0..3 :
          Cardinality(Filled([NewPiece(shape) EXCEPT !.rot = rot])) = 4
    /\ active_piece # None =>
          /\ Cardinality(Cells(Unwrap(active_piece))) = 4
          /\ Fits(Unwrap(active_piece), field)
          /\ piece_fits(Unwrap(active_piece), field)
    /\ last_tick.froze =>
          LET p == Unwrap(last_tick.piece)
          IN  /\ \A c \in Cells(p) : OnBoard(c) /\ CellAt(field, c) = p.color
              /\ p.color # Empty

\* The freeze itself: the cells that change are exactly the 4 cells of the
\* piece, each of them was Empty and is Full afterwards, and no other tick
\* with a piece changes the field.
FreezeFillsFourEmptyCells ==
    [][ last_tick'.branch = "play" =>
            IF last_tick'.froze
            THEN LET p == Unwrap(last_tick'.piece)
                 IN  /\ Changed(field, field') =
                            { c[1] + c[2] * FIELD_WIDTH : c \in Cells(p) }
                     /\ Cardinality(Changed(field, field')) = 4
                     /\ \A o \in Changed(field, field') :
                            field[o] = Empty /\ field'[o] # Empty
            ELSE field' = field
      ]_vars

\* C33: after every tick, whenever an active piece is present it fits the
\* field: all 4 of its filled cells are inside [0,10) x [0,20) and on Empty
\* cells; therefore a freeze turns exactly 4 Empty cells into Full ones,
\* never overwrites a Full cell and never writes outside the board.
C33_ActivePieceFits == []ActivePieceFits /\ FreezeFillsFourEmptyCells

\* The bar standing in column 9 has been moved against the right wall, has
\* stayed where it was, and has frozen in the last empty column of rows
\* 16..19, which are full now.
C33_Witness ==
    /\ last_tick.froze
    /\ last_tick.move_attempt = "right"
    /\ Unwrap(last_tick.piece).x = 7
    /\ Unwrap(last_tick.piece).shape = 1
    /\ FullRows(field) = { 16, 17, 18, 19 }

\* A piece is active that a rotation was tried on and that was moved left.
C33_TurnedAndMoved ==
    /\ active_piece # None
    /\ last_tick.rot_attempt # "none"
    /\ play_ticks >= 2
    /\ Unwrap(active_piece).x < NewPiece(Unwrap(active_piece).shape).x

\* The stack holds the Menu alone or the Menu beneath one Game or Scoreboard,
\* and a StateChange that the Menu has returned is neither Pop nor Swap.
MenuAtBottom ==
    /\ states # << >>
    /\ Len(states) \in { 1, 2 }
    /\ states[1].kind = "Menu"
    /\ Len(states) = 2 => states[2].kind \in { "Game", "Scores" }
    /\ Top.kind = "Menu" => change.kind \in { "None", "Push", "Quit" }

\* The handling of a StateChange: a Pop finds two screens and leaves the Menu,
\* a Push finds the Menu alone, a Swap finds a Game on the Menu, and only a
\* Quit closes the window.
PopLeavesMenu ==
    [][ /\ change.kind = "Pop" =>
               (Len(states) = 2 /\ states' = << states[1] >> /\ ~should_close')
        /\ change.kind = "Push" => (Len(states) = 1 /\ Len(states') = 2)
        /\ change.kind = "Swap" => (Len(states) = 2 /\ Len(states') = 2)
        /\ should_close' => (should_close \/ change.kind = "Quit")
      ]_vars

\* C34: the screen stack is never empty while the main loop runs, its bottom
\* element is always the Menu and its depth is always 1 or 2 (the Menu alone,
\* or the Menu beneath one Game or Scoreboard); the Menu never returns Pop or
\* Swap, so a Pop never empties the stack.
C34_MenuAtBottom == []MenuAtBottom /\ PopLeavesMenu

\* A game has ended, its Scoreboard has saved the table and returned Pop, and
\* the Menu that pushed the game is the only screen again, the window open.
C34_Witness ==
    /\ states = << MenuBeneath >>
    /\ file \notin AppFiles
    /\ change.kind = "None"
    /\ ~should_close

\* The window has been closed by the Menu's "Quit" with the Menu on the stack.
C34_Closed == should_close /\ Len(states) = 1 /\ Top.kind = "Menu"

\* The fall counter and fall_ticks are between 1 and 20, and so is the level
\* that is displayed, `20 - self.fall_ticks + 1`.
FallTimersInRange ==
    /\ fall_counter \in 1..FALL_TICKS_START
    /\ fall_ticks \in 1..FALL_TICKS_START
    /\ (20 - fall_ticks + 1) \in 1..20

\* fall_ticks never increases and drops by at most 1 on a tick; the values
\* that a tick decrements are at least 1 (`self.fall_counter -= 1` on every
\* tick with a piece, `self.fall_ticks - 1` when the acceleration counter is
\* 0), so the unsigned subtractions do not underflow.
FallTicksStepDown ==
    [][ /\ fall_ticks' \in { fall_ticks, fall_ticks - 1 }
        /\ last_tick'.branch = "play" =>
              /\ fall_counter - 1 >= 0
              /\ fall_ticks - 1 >= 0
              /\ fall_counter' \in { fall_counter - 1, fall_ticks' }
              /\ fall_counter' <= fall_ticks'
        /\ last_tick'.branch # "play" => fall_counter' = fall_counter
      ]_vars

\* C35: after every tick of any run, 1 <= fall_counter <= 20 and
\* 1 <= fall_ticks <= 20, fall_ticks never increases and drops by at most 1
\* per tick; so the unsigned decrements of fall_counter and fall_ticks never
\* underflow and the displayed level 20 - fall_ticks + 1 stays in 1..20.
C35_FallTimersInRange == []FallTimersInRange /\ FallTicksStepDown

\* Three rows were cleared with the acceleration counter at 3: the tick that
\* spawned the next piece has reduced fall_ticks from 20 to 19 and counted
\* the fall counter down from 20 to 19.
C35_Witness ==
    /\ last_tick.branch = "play"
    /\ last_tick.spawned # None
    /\ ~last_tick.should_fall
    /\ score = 300 + 500
    /\ fall_ticks = 19
    /\ fall_counter = 19
    /\ fall_accel_counter = FALL_ACCEL_TICKS

\* A tick that found fall_ticks at 1 and the acceleration counter at 0 has
\* left fall_ticks at 1, on level 20.
C35_AtFloor ==
    /\ last_tick.branch = "play"
    /\ last_tick.spawned # None
    /\ score > 1200
    /\ fall_ticks = 1
    /\ fall_counter = 1
    /\ fall_accel_counter = FALL_ACCEL_TICKS

\* C36: whenever no LinesCleared effect is active the field contains no
\* completely Full row; while a LinesCleared effect is active, the completely
\* Full rows of the field are exactly the rows recorded in the effect; and
\* the active piece is absent for as long as any effect is active.
C36_FullRowsAreInEffect ==
    /\ ~LinesCleared => FullRows(field) = {}
    /\ LinesCleared =>
          /\ FullRows(field) = EffectRows
          /\ EffectRows # {}
          /\ Cardinality(EffectRows) = Len(Unwrap(effect).lines)
    /\ effect # NoEffect => active_piece = None

\* A LinesCleared effect has been counted down for two ticks: rows 17 and 19
\* are recorded in it and are the full rows of the field, row 18 between
\* them is not full.
C36_Witness ==
    /\ LinesCleared
    /\ Unwrap(effect).life = LINES_CLEARED_LIFE - 2
    /\ Unwrap(effect).lines = << 17, 19 >>
    /\ FullRows(field) = { 17, 19 }
    /\ active_piece = None

\* The effect has expired and its four rows have been removed: no row of the
\* field is full and the next piece has not been spawned yet.
C36_RowsRemoved ==
    /\ effect = NoEffect
    /\ last_tick.removed = << 16, 17, 18, 19 >>
    /\ FullRows(field) = {}
    /\ active_piece = None

\* A GameOver effect is active: no piece is active and no row is full.
C36_GameOver == GameOver /\ active_piece = None /\ Unwrap(effect).life < GAME_OVER_LIFE

----------------------------------------------------------------------------
(* The whole program: SpecRun starts the application at its Menu or with a  *)
(* game in progress above the Menu, and runs the ticks of every screen and  *)
(* main's handling of what they return. A run from the Menu has two play    *)
(* ticks of its budget left, as under SpecApp.                              *)

\* The games in progress that a run may start with: one that clears three
\* rows, one that clears four, and two whose next piece does not fit.
RunGames == { g \in GamesInProgress : g.field \in { FieldThree, FieldFour, FieldTop } }

InitRun ==
    /\ \/ /\ states = << NewMenu >>
          /\ play_ticks = MaxPlayTicks - 2
          /\ \E g \in { NoGame } :
                /\ field = g.field
                /\ active_piece = g.active_piece
                /\ next_pieces = g.next_pieces
                /\ fall_ticks = g.fall_ticks
                /\ fall_counter = g.fall_counter
                /\ fall_accel_counter = g.fall_accel_counter
                /\ ticker = g.ticker
                /\ score = g.score
       \/ /\ states = << MenuBeneath, GameScreen >>
          /\ play_ticks = 0
          /\ \E g \in RunGames :
                /\ field = g.field
                /\ active_piece = g.active_piece
                /\ next_pieces = g.next_pieces
                /\ fall_ticks = g.fall_ticks
                /\ fall_counter = g.fall_counter
                /\ fall_accel_counter = g.fall_accel_counter
                /\ ticker = g.ticker
                /\ score = g.score
    /\ file = None
    /\ rotated = FALSE
    /\ last_input = DefaultInput
    /\ effect = NoEffect
    /\ change = NoChange
    /\ last_tick = Idle("none")
    /\ effect_set_at = 0
    /\ call = None
    /\ should_close = FALSE

SpecRun == InitRun /\ [][NextApp]_vars

\* The pieces that exist: the active one and those of the lookahead queue.
Pieces ==
    Range(next_pieces) \cup (IF active_piece = None THEN {} ELSE { Unwrap(active_piece) })

\* The values of an i8.
I8 == -128..127

\* What the next tick relies on: the selection of a Menu is 0, 1 or 2 (the
\* match of TetrisMenu::update and render); every debounced key is in one of
\* the three states; every piece has a shape id below 7, a rotation below 4
\* and coordinates that can be moved by one column or row and scanned over 4
\* rows within an i8; the lookahead queue of a running Game holds a piece to
\* remove; an effect of a running Game has a lifetime of at least 1 to
\* decrement; the rows recorded in a LinesCleared effect are between 1 and 4
\* rows of the board; and the cells of the active piece are cells of the
\* field, at indices 0..199.
TickCannotPanic ==
    /\ \A i \in DOMAIN states :
          /\ states[i].kind = "Menu" => states[i].selection \in { 0, 1, 2 }
          /\ states[i].kind \in { "Menu", "Scores" } =>
                \A k \in Keys : states[i].last_input[k] \in KeyStates
    /\ \A k \in Keys : last_input[k] \in KeyStates
    /\ \A p \in Pieces :
          /\ p.shape \in 0..(Len(PIECES) - 1)
          /\ p.rot \in 0..3
          /\ { p.x - 1, p.x + 1, p.y + 1, p.y + 4 } \subseteq I8
    /\ Running("Game") =>
          /\ next_pieces # << >>
          /\ effect # NoEffect => Unwrap(effect).life >= 1
    /\ LinesCleared =>
          /\ Len(Unwrap(effect).lines) \in 1..4
          /\ EffectRows \subseteq Rows
    /\ active_piece # None =>
          \A c \in Cells(Unwrap(active_piece)) :
              c[1] + c[2] * FIELD_WIDTH \in 0..(FieldLen - 1)

\* What the last tick of the Game has done: the rows it scored were 1 to 4
\* rows, the piece it unwrapped was there, and a lifetime it decremented has
\* not fallen below 0.
TickDidNotPanic ==
    /\ last_tick.deletable # << >> => Len(last_tick.deletable) \in 1..4
    /\ last_tick.branch = "play" => last_tick.piece # None
    /\ last_tick.spawned # None => Unwrap(last_tick.spawned).shape \in 0..(Len(PIECES) - 1)
    /\ effect # NoEffect => Unwrap(effect).life >= 0
    /\ ticker >= 0 /\ score >= 0

\* C37: no reachable state makes a tick panic: the cleared-row count is
\* always in 1..4 when scored, the menu selection is always in 0..2, the
\* debouncer never reaches its unreachable arm, Piece::new is only called
\* with a shape id below 7 and filled_at only with x, y below 4, every field
\* index used is in 0..199, the lookahead queue is non-empty whenever its
\* head is removed, an active piece is present whenever it is unwrapped, the
\* effect lifetime is at least 1 whenever it is decremented, and the i8 piece
\* coordinates never overflow.
C37_NoTickPanics == TickCannotPanic /\ TickDidNotPanic

\* A standing bar has completed four rows at once: the tick has scored 800
\* points for them and recorded the four rows in the effect.
C37_Witness ==
    /\ last_tick.branch = "play"
    /\ last_tick.deletable = << 16, 17, 18, 19 >>
    /\ score = 800 + 800
    /\ LinesCleared
    /\ Unwrap(effect).life = LINES_CLEARED_LIFE
    /\ active_piece = None

\* The GameOver effect has been counted down to 0 and the Game has returned
\* Swap with its score; it is not updated again.
C37_LastTickOfGame ==
    /\ GameOver
    /\ Unwrap(effect).life = 0
    /\ change.kind = "Swap"
    /\ change.inputting_score = Some(800)

\* The Menu has moved its selection up from the first entry to the last and
\* down again to the first.
C37_SelectionWrapped ==
    /\ Top.kind = "Menu"
    /\ Top.ticker = 3
    /\ Top.selection = 0
    /\ Top.last_input.down = "Pressed"

----------------------------------------------------------------------------
(* The time a piece takes to fall: SpecFall spawns a square or a bar on an  *)
(* empty field at a fall speed of 2 or 3 ticks, with the acceleration      *)
(* counter at 10 or at 0, and runs the ticks of the Game until the piece    *)
(* has frozen. The keys turn the piece and move it to either side; the      *)
(* down key, which only adds ticks on which the piece falls, is left to     *)
(* Spec and SpecDrop.                                                       *)

\* The slowest fall speed of a run, in ticks.
MaxFallTicks == 3

\* Games whose field is empty, right before a piece is spawned: the fall
\* counter is at fall_ticks, where the last freeze has left it. The square
\* falls at 2 ticks; the bar starts at the slowest speed with the
\* acceleration counter at 0, so that its spawn tick reduces fall_ticks.
FallGames ==
    { MidGame(EmptyField, None, Queue(0, 1, 0), 2, 2, FALL_ACCEL_TICKS, 0, 0),
      MidGame(EmptyField, None, Queue(1, 0, 0), MaxFallTicks, MaxFallTicks, 0,
              7000, 13600) }

\* `call` keeps the fall_ticks of the tick before the piece became active.
InitFall ==
    /\ \E g \in FallGames :
          /\ field = g.field
          /\ active_piece = g.active_piece
          /\ next_pieces = g.next_pieces
          /\ fall_ticks = g.fall_ticks
          /\ fall_counter = g.fall_counter
          /\ fall_accel_counter = g.fall_accel_counter
          /\ ticker = g.ticker
          /\ score = g.score
          /\ call = [ fn |-> "none", fall_ticks |-> g.fall_ticks ]
    /\ rotated = FALSE
    /\ last_input = DefaultInput
    /\ effect = NoEffect
    /\ change = NoChange
    /\ last_tick = Idle("none")
    /\ effect_set_at = 0
    /\ play_ticks = 0
    /\ states = << MenuBeneath, GameScreen >>
    /\ should_close = FALSE
    /\ file = None

\* The raw key readings of a tick of the run.
FallInputs == { {}, {"left"}, {"right"}, {"rot_right"} }

\* The first tick of the run: the piece is dequeued and becomes active.
FallSpawn ==
    \E raw \in FallInputs : \E index \in ShapeIds :
        LET inp        == input(raw, last_input)
            test_piece == Head(next_pieces)
        IN  /\ play_ticks = 0
            /\ Begin(inp)
            /\ ~was_pressed(inp.escape, ticker + 1)
            /\ effect = NoEffect
            /\ active_piece = None
            /\ next_pieces' = Append(Tail(next_pieces), NewPiece(index))
            /\ piece_fits(test_piece, field)
            /\ Play(inp, test_piece, Some(test_piece))
            /\ UNCHANGED << call, app_vars >>

\* A later tick of the run, as long as the piece is active.
FallTick ==
    \E raw \in FallInputs :
        LET inp == input(raw, last_input)
        IN  /\ Begin(inp)
            /\ ~was_pressed(inp.escape, ticker + 1)
            /\ effect = NoEffect
            /\ active_piece # None
            /\ Play(inp, Unwrap(active_piece), None)
            /\ UNCHANGED << next_pieces, call, app_vars >>

NextFall ==
    \/ FallSpawn
    \/ FallTick

SpecFall == InitFall /\ [][NextFall]_vars

\* The ticks since the piece became active, the tick that spawned it included.
TicksActive == play_ticks

\* A tick with a piece finds the fall counter between 1 and fall_ticks and
\* takes 1 off it, whatever rotation and movement it attempts; when that
\* leaves 0 the tick makes its fall attempt, which moves the piece down one
\* row or freezes it, and sets the counter to fall_ticks again.
FallAttemptEveryFallTicks ==
    [][ last_tick'.branch = "play" =>
            /\ fall_counter \in 1..fall_ticks
            /\ fall_counter = 1 => last_tick'.should_fall
            /\ last_tick'.should_fall =>
                  /\ \/ last_tick'.froze /\ active_piece' = None
                     \/ active_piece' # None /\
                            Unwrap(active_piece').y = PieceBefore.y + 1
                  /\ fall_counter' = fall_ticks'
            /\ ~last_tick'.should_fall =>
                  /\ fall_counter' = fall_counter - 1
                  /\ fall_counter' \in 1..fall_ticks'
      ]_vars

\* A piece that has been active for some ticks has fallen one row for every
\* fall_ticks of them: with F the fall_ticks of the tick before it became
\* active, a piece in row y whose counter has c ticks to go has been active
\* for F * (y + 1) - c ticks at most; so it has frozen within 20 * fall_ticks
\* ticks, which are 400 at most.
FrozenInTime ==
    /\ active_piece # None =>
          /\ TicksActive + fall_counter <= call.fall_ticks * (Unwrap(active_piece).y + 1)
          /\ Unwrap(active_piece).y < FIELD_HEIGHT - 1
          /\ TicksActive < 20 * fall_ticks
    /\ last_tick.froze => TicksActive <= 20 * fall_ticks
    /\ TicksActive <= 20 * FALL_TICKS_START

\* C38: no sequence of rotations and horizontal moves can postpone a fall
\* attempt: while a piece is active and no escape is pressed, a downward move
\* or a freeze happens at least once every fall_ticks ticks, so every spawned
\* piece is frozen within at most 20 x fall_ticks (at most 400) ticks of
\* becoming active.
C38_FallCannotBePostponed == []FrozenInTime /\ FallAttemptEveryFallTicks

\* The bar, turned to lie in row 1 of its bitmap, has fallen to the bottom row
\* at 2 ticks a row after a first fall of 3 ticks, and has frozen on a tick
\* that also tried to move it: 39 ticks after it became active.
C38_Witness ==
    /\ last_tick.froze
    /\ last_tick.move_attempt # "none"
    /\ Unwrap(last_tick.piece).shape = 1
    /\ Unwrap(last_tick.piece).y = FIELD_HEIGHT - 2
    /\ fall_ticks = call.fall_ticks - 1
    /\ TicksActive = call.fall_ticks + (FIELD_HEIGHT - 2) * fall_ticks

\* The square has fallen on every second tick and is at y = 6 after 12
\* ticks, on the last of which a rotation was attempted as well.
C38_TurnedAndMovedAllTheWay ==
    /\ active_piece # None
    /\ Unwrap(active_piece).shape = 0
    /\ Unwrap(active_piece).y = 6
    /\ TicksActive = 12
    /\ last_tick.rot_attempt # "none"

----------------------------------------------------------------------------
(* The acceleration of the fall                                             *)

\* The rows that the tick has cleared (recorded for removal).
RowsCleared == Len(last_tick'.deletable)

\* fall_ticks and the acceleration counter change on ticks with a piece only.
\* Such a tick that finds the counter at 0 takes 1 off fall_ticks (not below
\* 1) and sets the counter to 10, any other leaves both as they are; then
\* the rows that the tick clears are taken off the counter, stopping at 0.
\* So the counter falls only when rows are cleared, and fall_ticks only
\* after the counter has reached 0.
AccelerationByLineClears ==
    [][ LET reset == IF fall_accel_counter = 0 THEN FALL_ACCEL_TICKS
                     ELSE fall_accel_counter
        IN  /\ last_tick'.branch = "play" =>
                  /\ fall_ticks' = IF fall_accel_counter # 0 THEN fall_ticks
                                   ELSE IF fall_ticks - 1 >= 1 THEN fall_ticks - 1 ELSE 1
                  /\ fall_accel_counter' =
                        IF reset >= RowsCleared THEN reset - RowsCleared ELSE 0
                  /\ RowsCleared = Cardinality(FullRows(field'))
            /\ last_tick'.branch # "play" =>
                  /\ fall_ticks' = fall_ticks
                  /\ fall_accel_counter' = fall_accel_counter
            /\ fall_accel_counter' < fall_accel_counter =>
                  /\ last_tick'.froze
                  /\ RowsCleared > 0
                  /\ score' > score
            /\ fall_ticks' # fall_ticks =>
                  /\ fall_accel_counter = 0
                  /\ score > 0
      ]_vars

\* As long as no row has been cleared in a game, which is as long as its
\* score is 0, fall_ticks is 20 and the acceleration counter is 10.
NoAccelerationWithoutClears ==
    score = 0 =>
        /\ fall_ticks = FALL_TICKS_START
        /\ fall_accel_counter = FALL_ACCEL_TICKS

C39_CounterLowered ==
    /\ LinesCleared
    /\ Len(Unwrap(effect).lines) = 2
    /\ fall_accel_counter = FALL_ACCEL_TICKS - 2
    /\ fall_ticks = FALL_TICKS_START

\* A new game has run three ticks with a piece and cleared nothing.
C39_NothingCleared ==
    /\ score = 0
    /\ ticker = 3
    /\ play_ticks = 3
    /\ fall_ticks = FALL_TICKS_START

----------------------------------------------------------------------------
(* Keys held across a change of screen                                      *)

\* The previous input that the top screen of a stack keeps (a Game keeps it
\* in last_input).
StoredInput(stack, game_input) ==
    IF stack[Len(stack)].kind = "Game" THEN game_input
    ELSE stack[Len(stack)].last_input

\* C40: a key held down continuously across a screen transition (the initial
\* Menu, a Push into Game or Scoreboard, a Swap into Scoreboard, or a Pop
\* back to the Menu with its stored previous input) is never reported as a
\* fresh Pressed edge by the screen that becomes active: the first tick of
\* the initial Menu reports no key as Pressed; a key that the screen that
\* was left read down is not Released in the previous input of the screen
\* that becomes active, so that it cannot read as Pressed there; and the
\* rotate key that confirmed "Play", still down on the first tick of the
\* Game, makes no rotation attempt on the first piece. The Game and the
\* Scoreboard start with every key Released, and the Menu beneath keeps the
\* input of the tick on which it pushed.
C40_HeldKeyIsNoFreshPress ==
    [][ /\ (Running("Menu") /\ Top.ticker = 0 /\ Len(states') = Len(states)) =>
               \A k \in Keys : states'[Len(states')].last_input[k] # "Pressed"
        /\ (change.kind \in { "Push", "Pop", "Swap" } /\ states' # << >>) =>
               \A k \in Keys :
                   StoredInput(states, last_input)[k] # "Released" =>
                       StoredInput(states', last_input')[k] # "Released"
        /\ ( /\ Running("Game") /\ ticker = 0 /\ ticker' = 1
             /\ states[1].last_input.rot_right # "Released"
             /\ last_input'.rot_right # "Released" ) =>
               /\ last_input'.rot_right # "Pressed"
               /\ last_tick'.rot_attempt = "none"
      ]_vars

\* What the code does for the initial Menu: it starts with every key Holding,
\* so its first tick reports a key that is down as Holding and moves and
\* confirms nothing.
InitialMenuIgnoresHeldKeys ==
    [][ (Running("Menu") /\ Top.ticker = 0 /\ Top.last_input = all_pressed) =>
            /\ \A k \in Keys : states'[Len(states')].last_input[k] \in { "Holding", "Released" }
            /\ states'[Len(states')].selection = Top.selection
            /\ change'.kind = "None"
      ]_vars

\* What the code does after a Push or a Swap: the screen that becomes active
\* starts with every key Released, whatever the screen before it has read.
NewScreenStartsReleased ==
    [][ change.kind \in { "Push", "Swap" } =>
            StoredInput(states', last_input') = DefaultInput
      ]_vars

\* The rotate key that confirmed "Play" was still down on the first tick of
\* the Game: it was read as Pressed, and the bar that the tick spawned has
\* been turned.
FirstPieceTurnedByConfirmKey ==
    /\ Len(states) = 2
    /\ Top.kind = "Game"
    /\ states[1].last_input.rot_right = "Pressed"
    /\ ticker = 1
    /\ last_input.rot_right = "Pressed"
    /\ last_tick.rot_attempt = "right"
    /\ last_tick.spawned = Some(NewPiece(1))
    /\ active_piece # None
    /\ Unwrap(active_piece).rot = 1

\* The rotate key that confirmed "Scores" was still down on the first tick
\* of the Scoreboard and was read as Pressed.
ScoreboardReadsConfirmKeyAsPressed ==
    /\ Len(states) = 2
    /\ Top.kind = "Scores"
    /\ Top.ticker = 1
    /\ states[1].last_input.rot_right = "Pressed"
    /\ Top.last_input.rot_right = "Pressed"

====
